---------------------------- MODULE Spec2Model ----------------------------
(***************************************************************************)
(* TinyVault: the Telegram bot interaction engine (TelegramService), the   *)
(* item and user stores it consumes, and the webhook receiver that calls   *)
(* it.  Strings are sequences of one-character strings, so that split,     *)
(* strip, replace, startswith and the f-string results are computed.       *)
(***************************************************************************)
EXTENDS Integers, Sequences, FiniteSets, TLC

(***************************************************************************)
(* Bounds of the model.                                                    *)
(***************************************************************************)
\* update identifiers are 1..MaxUpdateId
MaxUpdateId == 3
\* the webhook receives the updates 1..MaxPosts, each any number of times
MaxPosts == 2
\* at most MaxCalls calls of process_webhook_update run at a time
MaxCalls == 2
\* a user has at most MaxListed items when the pages of a list are turned
MaxListed == 12
\* Telegram (external) user ids of the senders
TgIds == {1, 2}
\* the codes a random draw of _generate_unique_short_code can produce
ShortCodes == {<<"a">>, <<"b">>}

(***************************************************************************)
(* Program constants.                                                      *)
(***************************************************************************)
cleanup_threshold == 1000
KeepLast == 500
ContentMax == 10000
NoteMax == 300
ListLimit == 50
ItemsPerPage == 5

(***************************************************************************)
(* Python string operations.                                               *)
(***************************************************************************)
IsSpace(c) == c = " "

StartsWith(s, p) == Len(s) >= Len(p) /\ SubSeq(s, 1, Len(p)) = p

RECURSIVE LStrip(_)
LStrip(s) == IF s # <<>> /\ IsSpace(Head(s)) THEN LStrip(Tail(s)) ELSE s

RECURSIVE RStrip(_)
RStrip(s) ==
    IF s # <<>> /\ IsSpace(s[Len(s)]) THEN RStrip(SubSeq(s, 1, Len(s) - 1)) ELSE s

\* str.strip()
Strip(s) == RStrip(LStrip(s))

RECURSIVE SplitFrom(_, _, _)
SplitFrom(s, i, cur) ==
    IF i > Len(s)
    THEN IF cur = <<>> THEN <<>> ELSE <<cur>>
    ELSE IF IsSpace(s[i])
         THEN IF cur = <<>>
              THEN SplitFrom(s, i + 1, <<>>)
              ELSE <<cur>> \o SplitFrom(s, i + 1, <<>>)
         ELSE SplitFrom(s, i + 1, Append(cur, s[i]))

\* str.split() with no separator: the runs of non-whitespace
Split(s) == SplitFrom(s, 1, <<>>)

RECURSIVE Join(_)
\* ' '.join(args)
Join(args) ==
    IF args = <<>> THEN <<>>
    ELSE IF Len(args) = 1 THEN args[1]
    ELSE args[1] \o <<" ">> \o Join(Tail(args))

RECURSIVE Replace(_, _)
\* s.replace(old, ""), old not empty: every occurrence, left to right
Replace(s, old) ==
    IF Len(s) < Len(old) THEN s
    ELSE IF StartsWith(s, old)
         THEN Replace(SubSeq(s, Len(old) + 1, Len(s)), old)
         ELSE <<Head(s)>> \o Replace(Tail(s), old)

LowerChar(c) ==
    CASE c = "H" -> "h"
      [] c = "S" -> "s"
      [] c = "A" -> "a"
      [] c = "B" -> "b"
      [] OTHER -> c

\* str.lower()
Lower(s) == [i \in 1..Len(s) |-> LowerChar(s[i])]

Digits == {"0", "1", "2", "3", "4", "5", "6", "7", "8", "9"}

DigitVal(c) ==
    CASE c = "0" -> 0 [] c = "1" -> 1 [] c = "2" -> 2 [] c = "3" -> 3
      [] c = "4" -> 4 [] c = "5" -> 5 [] c = "6" -> 6 [] c = "7" -> 7
      [] c = "8" -> 8 [] c = "9" -> 9

RECURSIVE DigitsVal(_, _)
DigitsVal(s, acc) ==
    IF s = <<>> THEN acc ELSE DigitsVal(Tail(s), 10 * acc + DigitVal(Head(s)))

\* int(s): surrounding whitespace and one sign are accepted; anything else
\* raises ValueError (ok = FALSE)
ParseInt(s) ==
    LET t == Strip(s)
        neg == t # <<>> /\ Head(t) = "-"
        body == IF t # <<>> /\ Head(t) \in {"-", "+"} THEN Tail(t) ELSE t
    IN  IF body # <<>> /\ \A i \in 1..Len(body) : body[i] \in Digits
        THEN [ok |-> TRUE,
              val |-> IF neg THEN 0 - DigitsVal(body, 0) ELSE DigitsVal(body, 0)]
        ELSE [ok |-> FALSE, val |-> 0]

\* str.title() of an item kind
Title(kind) == CASE kind = "note" -> "Note" [] kind = "url" -> "Url"

\* s[:n] followed by "..." when s is longer than n
Preview(s, n) ==
    IF Len(s) > n THEN SubSeq(s, 1, n) \o <<".", ".", ".">> ELSE s


(***************************************************************************)
(* State.                                                                  *)
(*  users, items       the two tables of the database (row id = position)  *)
(*  user_writes        the rows of users the call in flight has written    *)
(*                     (inserted, or last_seen_at set to the current time) *)
(*  processed_updates  TelegramService._processed_updates                  *)
(*  user_states        TelegramService._user_states                        *)
(*  update, fault      the update being handled and the store call (if     *)
(*                     any) that raises while it is handled                *)
(*  result             what process_webhook_update returned for it         *)
(*  http               what telegram_webhook answered for it               *)
(*  calls              the coroutines of process_webhook_update in flight  *)
(*                     (concurrent specification only)                     *)
(***************************************************************************)
VARIABLES users, items, user_writes, processed_updates, user_states,
          update, fault, result, http, calls

vars == <<users, items, user_writes, processed_updates, user_states,
          update, fault, result, http, calls>>

(***************************************************************************)
(* UserRepository                                                          *)
(***************************************************************************)
\* the row id of the user with this Telegram id, 0 for None
get_by_telegram_id(us, tg) ==
    IF \E i \in 1..Len(us) : us[i].telegram_user_id = tg
    THEN CHOOSE i \in 1..Len(us) : us[i].telegram_user_id = tg
    ELSE 0

\* create_or_update_user without the lookup: a row is inserted every time
create_or_update_user_AlwaysInserts(us, tg) ==
    [users |-> Append(us, [telegram_user_id |-> tg]), id |-> Len(us) + 1]

\* the users table afterwards, and the row id of the user, which is written
\* in both branches: inserted, or its last_seen_at set to current_timestamp
\* (the timestamps themselves are not modelled)
create_or_update_user(us, tg) ==
    LET uid == get_by_telegram_id(us, tg)
    IN  IF uid = 0
        THEN [users |-> Append(us, [telegram_user_id |-> tg]), id |-> Len(us) + 1]
        ELSE [users |-> us, id |-> uid]

(***************************************************************************)
(* ItemRepository                                                          *)
(***************************************************************************)
\* the row id of the non-deleted item with this code, 0 for None
get_by_short_code(its, code) ==
    IF \E i \in 1..Len(its) : its[i].short_code = code /\ ~its[i].deleted
    THEN CHOOSE i \in 1..Len(its) : its[i].short_code = code /\ ~its[i].deleted
    ELSE 0

RECURSIVE OwnedNewestFirst(_, _, _)
OwnedNewestFirst(its, owner, i) ==
    IF i = 0 THEN <<>>
    ELSE IF its[i].owner_user_id = owner /\ ~its[i].deleted
         THEN <<i>> \o OwnedNewestFirst(its, owner, i - 1)
         ELSE OwnedNewestFirst(its, owner, i - 1)

\* row ids of the owner's non-deleted items, newest first, at most limit
get_by_owner_id(its, owner, limit) ==
    LET all == OwnedNewestFirst(its, owner, Len(its))
    IN  IF Len(all) > limit THEN SubSeq(all, 1, limit) ELSE all

\* create_item on a table with no unique constraint on short_code
create_item_NoUniqueConstraint(its, owner, code, kind, content) ==
    [ok |-> TRUE,
     items |-> Append(its, [owner_user_id |-> owner, short_code |-> code,
                            kind |-> kind, content |-> content,
                            deleted |-> FALSE]),
     id |-> Len(its) + 1]

\* Item.short_code is declared unique: an insert of a code that any row
\* carries (deleted or not) raises IntegrityError (ok = FALSE)
create_item(its, owner, code, kind, content) ==
    IF \E i \in 1..Len(its) : its[i].short_code = code
    THEN [ok |-> FALSE, items |-> its, id |-> 0]
    ELSE [ok |-> TRUE,
          items |-> Append(its, [owner_user_id |-> owner, short_code |-> code,
                                 kind |-> kind, content |-> content,
                                 deleted |-> FALSE]),
          id |-> Len(its) + 1]

\* UPDATE ... WHERE short_code AND owner_user_id AND deleted_at IS NULL
soft_delete(its, code, owner) ==
    LET hit == {i \in 1..Len(its) : /\ its[i].short_code = code
                                    /\ its[i].owner_user_id = owner
                                    /\ ~its[i].deleted}
    IN  [items |-> [i \in 1..Len(its) |->
                      IF i \in hit THEN [its[i] EXCEPT !.deleted = TRUE] ELSE its[i]],
         success |-> hit # {}]

is_short_code_available(its, code) ==
    ~\E i \in 1..Len(its) : its[i].short_code = code /\ ~its[i].deleted

get_item_stats(its, owner) ==
    LET live == {i \in 1..Len(its) : its[i].owner_user_id = owner /\ ~its[i].deleted}
    IN  [total |-> Cardinality(live),
         urls |-> Cardinality({i \in live : its[i].kind = "url"}),
         notes |-> Cardinality({i \in live : its[i].kind = "note"})]

(***************************************************************************)
(* ItemService                                                             *)
(***************************************************************************)
LabelChars ==
    {"a", "b", "c", "d", "e", "f", "g", "h", "i", "j", "k", "l", "m", "n", "o",
     "p", "q", "r", "s", "t", "u", "v", "w", "x", "y", "z",
     "A", "B", "C", "D", "E", "F", "G", "H", "I", "J", "K", "L", "M", "N", "O",
     "P", "Q", "R", "S", "T", "U", "V", "W", "X", "Y", "Z"} \cup Digits \cup {"-"}

TopLevelSuffixes ==
    {<<"c", "o", "m">>, <<"o", "r", "g">>, <<"n", "e", "t">>, <<"i", "o">>, <<"c", "o">>, <<"m", "e">>, <<"d", "e", "v">>}

\* the pattern without the $: ^[a-zA-Z0-9-]+\.(com|org|net|io|co|me|dev)
IsBareDomain_NoEndAnchor(t) ==
    \E d \in 2..Len(t) :
        /\ t[d] = "."
        /\ \A i \in 1..(d - 1) : t[i] \in LabelChars
        /\ \E suffix \in TopLevelSuffixes : StartsWith(SubSeq(t, d + 1, Len(t)), suffix)

\* ^[a-zA-Z0-9-]+\.(com|org|net|io|co|me|dev)$
IsBareDomain(t) ==
    \E d \in 2..Len(t) :
        /\ t[d] = "."
        /\ \A i \in 1..(d - 1) : t[i] \in LabelChars
        /\ SubSeq(t, d + 1, Len(t)) \in TopLevelSuffixes

_detect_content_kind(content) ==
    LET t == Strip(content)
    IN  IF \/ StartsWith(t, <<"h", "t", "t", "p", ":", "/", "/">>)
           \/ StartsWith(t, <<"h", "t", "t", "p", "s", ":", "/", "/">>)
           \/ StartsWith(t, <<"w", "w", "w", ".">>)
           \/ IsBareDomain(t)
        THEN "url" ELSE "note"

\* validate_item_content(content, None): the list of error messages
validate_item_content(content) ==
    (IF content = <<>> \/ Strip(content) = <<>> THEN <<"Content cannot be empty">> ELSE <<>>)
    \o (IF Len(content) > ContentMax THEN <<"Content too long (max 10KB)">> ELSE <<>>)

\* the codes _generate_unique_short_code can return: a draw is returned as
\* soon as the availability check accepts it
AvailableDraws(its) == {c \in ShortCodes : is_short_code_available(its, c)}


(***************************************************************************)
(* TelegramService: conversation state, keyboards, replies.                *)
(* A reply is {text, keyboard}: the text is the name of its f-string       *)
(* template with the interpolated values, the keyboard the rows of the     *)
(* buttons' callback_data.                                                 *)
(***************************************************************************)
EmptyDict == [k \in {} |-> <<>>]

IdleState == [state |-> "idle", data |-> EmptyDict]

\* _get_user_state has a side effect: it stores the idle default
_get_user_state(st, user_id) ==
    IF user_id \in DOMAIN st THEN st
    ELSE [k \in DOMAIN st \cup {user_id} |-> IF k = user_id THEN IdleState ELSE st[k]]

_set_user_state(st, user_id, state, data) ==
    [k \in DOMAIN st \cup {user_id} |->
        IF k = user_id THEN [state |-> state, data |-> data] ELSE st[k]]

_clear_user_state(st, user_id) ==
    [k \in DOMAIN st \ {user_id} |-> st[k]]

\* what a later _get_user_state(user_id) returns
StateOf(st, user_id) == IF user_id \in DOMAIN st THEN st[user_id] ELSE IdleState

RECURSIVE NatToStr(_)
NatToStr(n) ==
    LET d == CHOOSE c \in Digits : DigitVal(c) = n % 10
    IN  IF n < 10 THEN <<d>> ELSE NatToStr(n \div 10) \o <<d>>

\* str(n) of an int
IntToStr(n) == IF n < 0 THEN <<"-">> \o NatToStr(0 - n) ELSE NatToStr(n)

NoKeyboard == [present |-> FALSE, rows |-> <<>>]

Keyboard(rows) == [present |-> TRUE, rows |-> rows]

_create_main_menu_keyboard ==
    Keyboard(<< <<<<"s", "a", "v", "e", "_", "i", "t", "e", "m">>, <<"l", "i", "s", "t", "_", "i", "t", "e", "m", "s">>>>,
                <<<<"g", "e", "t", "_", "i", "t", "e", "m">>, <<"d", "e", "l", "e", "t", "e", "_", "i", "t", "e", "m">>>>,
                <<<<"s", "t", "a", "t", "s">>, <<"h", "e", "l", "p">>>> >>)

\* _create_confirm_keyboard("delete", item_id)
_create_confirm_keyboard(item_id) ==
    Keyboard(<< << (IF item_id # <<>>
                    THEN <<"c", "o", "n", "f", "i", "r", "m", "_", "d", "e", "l", "e", "t", "e">> \o <<"_">> \o item_id
                    ELSE <<"c", "o", "n", "f", "i", "r", "m", "_", "d", "e", "l", "e", "t", "e">>),
                   <<"c", "a", "n", "c", "e", "l", "_", "a", "c", "t", "i", "o", "n">> >> >>)

CancelKeyboard == Keyboard(<< <<<<"m", "a", "i", "n", "_", "m", "e", "n", "u">>>> >>)

ItemActionKeyboard(code) ==
    Keyboard(<< <<<<"d", "e", "l", "e", "t", "e", "_", "i", "t", "e", "m", "_">> \o code, <<"c", "o", "p", "y", "_", "c", "o", "d", "e", "_">> \o code>>,
                <<<<"m", "a", "i", "n", "_", "m", "e", "n", "u">>>> >>)

StatsKeyboard ==
    Keyboard(<< <<<<"l", "i", "s", "t", "_", "i", "t", "e", "m", "s">>, <<"s", "a", "v", "e", "_", "i", "t", "e", "m">>>>, <<<<"m", "a", "i", "n", "_", "m", "e", "n", "u">>>> >>)

\* items[start:end] of a Python list, 0-based, start >= 0
Slice(l, start, end) ==
    IF start >= Len(l) THEN <<>>
    ELSE SubSeq(l, start + 1, IF end > Len(l) THEN Len(l) ELSE end)

\* ids: the row ids of the listed items, newest first
_create_item_list_keyboard(its, ids, page) ==
    LET start_idx == page * ItemsPerPage
        end_idx == start_idx + ItemsPerPage
        page_items == Slice(ids, start_idx, end_idx)
        item_rows == [i \in 1..Len(page_items) |->
                         <<<<"v", "i", "e", "w", "_", "i", "t", "e", "m", "_">> \o its[page_items[i]].short_code>>]
        nav_row == (IF page > 0 THEN <<<<"p", "a", "g", "e", "_">> \o IntToStr(page - 1)>> ELSE <<>>)
                   \o (IF end_idx < Len(ids)
                       THEN <<<<"p", "a", "g", "e", "_">> \o IntToStr(page + 1)>> ELSE <<>>)
    IN  Keyboard(item_rows
                 \o (IF nav_row # <<>> THEN <<nav_row>> ELSE <<>>)
                 \o << <<<<"m", "a", "i", "n", "_", "m", "e", "n", "u">>>> >>)

Reply(text, args, keyboard) == [text |-> text, args |-> args, keyboard |-> keyboard]

MenuReply(text, args) == Reply(text, args, _create_main_menu_keyboard)

(***************************************************************************)
(* A handler takes the context c of one call:                              *)
(*   users, items, states   the tables and _user_states as it finds them   *)
(*   writes                 the rows of users written so far               *)
(*   tg                     the sender's Telegram id (effective_user.id)   *)
(*   fault                  the store call that raises, "none" for none    *)
(*   draw                   the code the generator's accepted draw yields  *)
(* and returns the tables, the written rows and _user_states as it leaves  *)
(* them, its reply, whether it raised, and whether it never returns (hang: *)
(* the generator found no code to accept).                                 *)
(***************************************************************************)
Ret(c, reply) ==
    [users |-> c.users, items |-> c.items, states |-> c.states, writes |-> c.writes,
     reply |-> reply, raised |-> FALSE, hang |-> FALSE]

\* the context after user_service.create_or_update_user(c.tg)
Touched(c) ==
    LET cu == create_or_update_user(c.users, c.tg)
    IN  [c EXCEPT !.users = cu.users, !.writes = c.writes \cup {cu.id}]

NoReply == Reply("", <<>>, NoKeyboard)

Raise(c) == [Ret(c, NoReply) EXCEPT !.raised = TRUE]

PleaseStartNoKeyboard == Reply("please_start_first", <<>>, NoKeyboard)

\* _validate_command_args: "" when valid, else the error text
_validate_command_args(args, min_args, max_args) ==
    IF Len(args) < min_args THEN "too_few_arguments"
    ELSE IF max_args >= 0 /\ Len(args) > max_args THEN "too_many_arguments"
    ELSE ""

\* _get_user_from_update: the user row id, or the error text
_get_user_from_update(c) ==
    IF c.fault = "get_user"
    THEN [valid |-> FALSE, error |-> "error_retrieving_user", id |-> 0]
    ELSE LET uid == get_by_telegram_id(c.users, c.tg)
         IN  IF uid = 0
             THEN [valid |-> FALSE, error |-> "please_start_first", id |-> 0]
             ELSE [valid |-> TRUE, error |-> "", id |-> uid]

handle_start_command(c) ==
    IF c.fault = "user" THEN Raise(c)
    ELSE LET c1 == Touched(c)
         IN  [Ret(c1, MenuReply("welcome",
                                <<IntToStr(get_by_telegram_id(c1.users, c.tg))>>))
                EXCEPT !.states = _clear_user_state(c.states, c.tg)]

\* handle_help_command clearing the state as /start does
handle_help_command_ClearsState(c) ==
    [Ret(c, MenuReply("help", <<>>)) EXCEPT !.states = _clear_user_state(c.states, c.tg)]

handle_help_command(c) == Ret(c, MenuReply("help", <<>>))

handle_menu_command(c) ==
    IF c.fault = "user" THEN Raise(c)
    ELSE IF get_by_telegram_id(c.users, c.tg) = 0 THEN Ret(c, PleaseStartNoKeyboard)
    ELSE [Ret(c, MenuReply("main_menu", <<>>))
            EXCEPT !.states = _clear_user_state(c.states, c.tg)]

\* handle_cancel_command without the _clear_user_state
handle_cancel_command_KeepsState(c) ==
    IF c.fault = "user" THEN Raise(c)
    ELSE IF get_by_telegram_id(c.users, c.tg) = 0 THEN Ret(c, PleaseStartNoKeyboard)
    ELSE Ret(c, MenuReply("operation_cancelled", <<>>))

handle_cancel_command(c) ==
    IF c.fault = "user" THEN Raise(c)
    ELSE IF get_by_telegram_id(c.users, c.tg) = 0 THEN Ret(c, PleaseStartNoKeyboard)
    ELSE [Ret(c, MenuReply("operation_cancelled", <<>>))
            EXCEPT !.states = _clear_user_state(c.states, c.tg)]

\* ItemService.create_item storing the content stripped of its outer whitespace
ItemService_create_item_StoresStripped(c, owner, content) ==
    IF c.fault = "item"
    THEN [ok |-> FALSE, items |-> c.items, id |-> 0, error |-> <<"S", "t", "o", "r", "e", "U", "n", "a", "v", "a", "i", "l", "a", "b", "l", "e">>,
          hang |-> FALSE]
    ELSE IF c.draw \notin AvailableDraws(c.items)
    THEN [ok |-> FALSE, items |-> c.items, id |-> 0, error |-> <<>>, hang |-> TRUE]
    ELSE LET ins == create_item(c.items, owner, c.draw,
                                _detect_content_kind(content), Strip(content))
         IN  [ok |-> ins.ok, items |-> ins.items, id |-> ins.id,
              error |-> IF ins.ok THEN <<>> ELSE <<"I", "n", "t", "e", "g", "r", "i", "t", "y", "E", "r", "r", "o", "r">>,
              hang |-> FALSE]

\* ItemService.create_item for owner and content, as both save paths call it
\* inside their try block: the items table afterwards and the new row id
\* (0 when the store raised)
ItemService_create_item(c, owner, content) ==
    IF c.fault = "item"
    THEN [ok |-> FALSE, items |-> c.items, id |-> 0, error |-> <<"S", "t", "o", "r", "e", "U", "n", "a", "v", "a", "i", "l", "a", "b", "l", "e">>,
          hang |-> FALSE]
    ELSE IF c.draw \notin AvailableDraws(c.items)
    THEN [ok |-> FALSE, items |-> c.items, id |-> 0, error |-> <<>>, hang |-> TRUE]
    ELSE LET ins == create_item(c.items, owner, c.draw,
                                _detect_content_kind(content), content)
         IN  [ok |-> ins.ok, items |-> ins.items, id |-> ins.id,
              error |-> IF ins.ok THEN <<>> ELSE <<"I", "n", "t", "e", "g", "r", "i", "t", "y", "E", "r", "r", "o", "r">>,
              hang |-> FALSE]

SavedReply(its, id, content) ==
    MenuReply("item_saved",
              <<Preview(content, 100), its[id].short_code, <<Title(its[id].kind)>> >>)


\* handle_save_command asking for the content when /save has no argument
handle_save_command_AsksForContent(c, args) ==
    LET arg_error == _validate_command_args(args, 1, -1)
        content == Join(args)
        c1 == Touched(c)
        errors == validate_item_content(content)
        made == ItemService_create_item(c1, get_by_telegram_id(c1.users, c.tg), content)
    IN  IF arg_error # ""
        THEN [Ret(c, Reply("send_content", <<>>, CancelKeyboard))
                EXCEPT !.states = _set_user_state(c.states, c.tg,
                                      "waiting_for_content", [action |-> "save"])]
        ELSE IF c.fault = "user" THEN Raise(c)
        ELSE IF errors # <<>> THEN Ret(c1, MenuReply("validation_failed", <<errors>>))
        ELSE IF made.hang THEN [Ret(c1, NoReply) EXCEPT !.hang = TRUE]
        ELSE IF made.ok
             THEN [Ret(c1, SavedReply(made.items, made.id, content))
                     EXCEPT !.items = made.items]
             ELSE Ret(c1, MenuReply("failed_to_save_item", <<made.error>>))

handle_save_command(c, args) ==
    LET arg_error == _validate_command_args(args, 1, -1)
        content == Join(args)
        c1 == Touched(c)
        errors == validate_item_content(content)
        made == ItemService_create_item(c1, get_by_telegram_id(c1.users, c.tg), content)
    IN  IF arg_error # "" THEN Ret(c, MenuReply(arg_error, <<>>))
        ELSE IF c.fault = "user" THEN Raise(c)
        ELSE IF errors # <<>> THEN Ret(c1, MenuReply("validation_failed", <<errors>>))
        ELSE IF made.hang THEN [Ret(c1, NoReply) EXCEPT !.hang = TRUE]
        ELSE IF made.ok
             THEN [Ret(c1, SavedReply(made.items, made.id, content))
                     EXCEPT !.items = made.items]
             ELSE Ret(c1, MenuReply("failed_to_save_item", <<made.error>>))

ListedCodes(its, ids) == [i \in 1..Len(ids) |-> its[ids[i]].short_code]

ListReply(its, ids, page) ==
    Reply("your_items",
          <<IntToStr(Len(ids)), IntToStr(page + 1), IntToStr((Len(ids) + 4) \div 5)>>,
          _create_item_list_keyboard(its, ids, page))

handle_list_command(c) ==
    LET gu == _get_user_from_update(c)
        ids == get_by_owner_id(c.items, gu.id, ListLimit)
    IN  IF ~gu.valid THEN Ret(c, MenuReply(gu.error, <<>>))
        ELSE IF c.fault = "item" THEN Ret(c, MenuReply("failed_to_retrieve_items", <<>>))
        ELSE IF ids = <<>> THEN Ret(c, MenuReply("no_items_yet_use_save", <<>>))
        ELSE [Ret(c, ListReply(c.items, ids, 0))
                EXCEPT !.states =
                    \* keyed by user.id, the row id of the user
                    _set_user_state(c.states, gu.id, "viewing_items",
                                    [items |-> ListedCodes(c.items, ids), page |-> 0])]

ItemDetailsReply(its, id) ==
    Reply("item_details",
          <<its[id].short_code, <<Title(its[id].kind)>>, its[id].content>>,
          ItemActionKeyboard(its[id].short_code))

\* handle_get_command with no check of the owner
handle_get_command_NoOwnerCheck(c, args) ==
    LET arg_error == _validate_command_args(args, 1, 1)
        short_code == Strip(args[1])
        gu == _get_user_from_update(c)
        id == get_by_short_code(c.items, short_code)
    IN  IF arg_error # "" THEN Ret(c, MenuReply(arg_error, <<>>))
        ELSE IF ~gu.valid THEN Ret(c, MenuReply(gu.error, <<>>))
        ELSE IF c.fault = "item" THEN Ret(c, MenuReply("failed_to_retrieve_item", <<>>))
        ELSE IF id = 0 THEN Ret(c, MenuReply("item_not_found", <<short_code>>))
        ELSE Ret(c, ItemDetailsReply(c.items, id))

handle_get_command(c, args) ==
    LET arg_error == _validate_command_args(args, 1, 1)
        short_code == Strip(args[1])
        gu == _get_user_from_update(c)
        id == get_by_short_code(c.items, short_code)
    IN  IF arg_error # "" THEN Ret(c, MenuReply(arg_error, <<>>))
        ELSE IF ~gu.valid THEN Ret(c, MenuReply(gu.error, <<>>))
        ELSE IF c.fault = "item" THEN Ret(c, MenuReply("failed_to_retrieve_item", <<>>))
        ELSE IF id = 0 THEN Ret(c, MenuReply("item_not_found", <<short_code>>))
        ELSE IF c.items[id].owner_user_id # gu.id
             THEN Ret(c, MenuReply("no_permission_to_access", <<>>))
        ELSE Ret(c, ItemDetailsReply(c.items, id))

DeleteConfirmationReply(its, id, shown_code, short_code) ==
    Reply("delete_confirmation",
          <<shown_code, Preview(its[id].content, 100)>>,
          _create_confirm_keyboard(short_code))

\* handle_delete_command deleting at once, with no confirmation
handle_delete_command_NoConfirm(c, args) ==
    LET arg_error == _validate_command_args(args, 1, 1)
        short_code == Strip(args[1])
        gu == _get_user_from_update(c)
        id == get_by_short_code(c.items, short_code)
    IN  IF arg_error # "" THEN Ret(c, MenuReply(arg_error, <<>>))
        ELSE IF ~gu.valid THEN Ret(c, MenuReply(gu.error, <<>>))
        ELSE IF id = 0 THEN Ret(c, MenuReply("item_not_found", <<short_code>>))
        ELSE IF c.items[id].owner_user_id # gu.id
             THEN Ret(c, MenuReply("no_permission_to_delete", <<>>))
        ELSE [Ret(c, MenuReply("item_deleted", <<short_code>>))
                EXCEPT !.items = soft_delete(c.items, short_code, gu.id).items]

handle_delete_command(c, args) ==
    LET arg_error == _validate_command_args(args, 1, 1)
        short_code == Strip(args[1])
        gu == _get_user_from_update(c)
        id == get_by_short_code(c.items, short_code)
    IN  IF arg_error # "" THEN Ret(c, MenuReply(arg_error, <<>>))
        ELSE IF ~gu.valid THEN Ret(c, MenuReply(gu.error, <<>>))
        ELSE IF c.fault = "item" THEN Ret(c, MenuReply("failed_to_prepare_delete", <<>>))
        ELSE IF id = 0 THEN Ret(c, MenuReply("item_not_found", <<short_code>>))
        ELSE IF c.items[id].owner_user_id # gu.id
             THEN Ret(c, MenuReply("no_permission_to_delete", <<>>))
        ELSE [Ret(c, DeleteConfirmationReply(c.items, id, short_code, short_code))
                EXCEPT !.states =
                    \* keyed by user.id, the row id of the user
                    _set_user_state(c.states, gu.id, "confirming_delete",
                                    [item_code |-> short_code])]

handle_stats_command(c) ==
    LET gu == _get_user_from_update(c)
        st == get_item_stats(c.items, gu.id)
    IN  IF ~gu.valid THEN Ret(c, MenuReply(gu.error, <<>>))
        ELSE IF c.fault = "item"
             THEN Ret(c, MenuReply("failed_to_retrieve_statistics", <<>>))
        ELSE Ret(c, Reply("statistics",
                          <<IntToStr(gu.id), IntToStr(st.total), IntToStr(st.urls),
                            IntToStr(st.notes)>>,
                          StatsKeyboard))

handle_unknown_command(c) == Ret(c, MenuReply("unknown_command", <<>>))

_process_command(c, text) ==
    LET command == Lower(Split(text)[1])
        args == Tail(Split(text))
    IN  CASE command = <<"/", "s", "t", "a", "r", "t">> -> handle_start_command(c)
          [] command = <<"/", "h", "e", "l", "p">> -> handle_help_command(c)
          [] command = <<"/", "m", "e", "n", "u">> -> handle_menu_command(c)
          [] command = <<"/", "c", "a", "n", "c", "e", "l">> -> handle_cancel_command(c)
          [] command = <<"/", "s", "a", "v", "e">> -> handle_save_command(c, args)
          [] command = <<"/", "l", "i", "s", "t">> -> handle_list_command(c)
          [] command = <<"/", "g", "e", "t">> -> handle_get_command(c, args)
          [] command = <<"/", "d", "e", "l">> -> handle_delete_command(c, args)
          [] command = <<"/", "s", "t", "a", "t", "s">> -> handle_stats_command(c)
          [] OTHER -> handle_unknown_command(c)


\* uid: the row id of the user handle_callback_query looked up
_confirm_delete_item(c, uid, short_code) ==
    LET sd == soft_delete(c.items, short_code, uid)
    IN  IF c.fault = "item" THEN Ret(c, MenuReply("failed_to_delete_try_again", <<>>))
        ELSE IF sd.success
             THEN [Ret(c, MenuReply("item_deleted", <<short_code>>))
                     EXCEPT !.items = sd.items,
                            !.states = _clear_user_state(c.states,
                                           c.users[uid].telegram_user_id)]
             ELSE Ret(c, MenuReply("failed_to_delete_item", <<short_code>>))

\* _show_items_page with no clamp of a page past the last one
_show_items_page_NoUpperClamp(c, uid, requested) ==
    LET ids == get_by_owner_id(c.items, uid, ListLimit)
        total_pages == (Len(ids) + 4) \div 5
        page == IF requested < 0 THEN 0 ELSE requested
    IN  IF c.fault = "item"
        THEN Ret(c, MenuReply("failed_to_retrieve_items_page", <<>>))
        ELSE IF ids = <<>> THEN Ret(c, MenuReply("no_items_yet", <<>>))
        ELSE [Ret(c, ListReply(c.items, ids, page))
                EXCEPT !.states =
                    _set_user_state(c.states, c.users[uid].telegram_user_id,
                                    "viewing_items",
                                    [items |-> ListedCodes(c.items, ids), page |-> page])]

_show_items_page(c, uid, requested) ==
    LET ids == get_by_owner_id(c.items, uid, ListLimit)
        total_pages == (Len(ids) + 4) \div 5
        page == IF requested < 0 \/ requested >= total_pages THEN 0 ELSE requested
    IN  IF c.fault = "item"
        THEN Ret(c, MenuReply("failed_to_retrieve_items_page", <<>>))
        ELSE IF ids = <<>> THEN Ret(c, MenuReply("no_items_yet", <<>>))
        ELSE [Ret(c, ListReply(c.items, ids, page))
                EXCEPT !.states =
                    _set_user_state(c.states, c.users[uid].telegram_user_id,
                                    "viewing_items",
                                    [items |-> ListedCodes(c.items, ids), page |-> page])]

WaitingReply(text) == Reply(text, <<>>, CancelKeyboard)

\* handle_callback_query without the default branch: a payload of no
\* family raises
handle_callback_query_RaisesOnUnknown(c, callback_data) ==
    LET user_id == c.tg
        uid == get_by_telegram_id(c.users, user_id)
        page == ParseInt(Replace(callback_data, <<"p", "a", "g", "e", "_">>))
    IN  IF c.fault = "user" THEN Raise(c)
        ELSE IF uid = 0 THEN Ret(c, PleaseStartNoKeyboard)
        ELSE IF callback_data = <<"m", "a", "i", "n", "_", "m", "e", "n", "u">>
             THEN [Ret(c, MenuReply("main_menu", <<>>))
                     EXCEPT !.states = _clear_user_state(c.states, user_id)]
        ELSE IF callback_data = <<"s", "a", "v", "e", "_", "i", "t", "e", "m">>
             THEN [Ret(c, WaitingReply("send_content"))
                     EXCEPT !.states = _set_user_state(c.states, user_id,
                                           "waiting_for_content", [action |-> "save"])]
        ELSE IF callback_data = <<"l", "i", "s", "t", "_", "i", "t", "e", "m", "s">> THEN handle_list_command(c)
        ELSE IF callback_data = <<"g", "e", "t", "_", "i", "t", "e", "m">>
             THEN [Ret(c, WaitingReply("send_code_to_get"))
                     EXCEPT !.states = _set_user_state(c.states, user_id,
                                           "waiting_for_code", [action |-> "get"])]
        ELSE IF callback_data = <<"d", "e", "l", "e", "t", "e", "_", "i", "t", "e", "m">>
             THEN [Ret(c, WaitingReply("send_code_to_delete"))
                     EXCEPT !.states = _set_user_state(c.states, user_id,
                                           "waiting_for_delete_code",
                                           [action |-> "delete"])]
        ELSE IF callback_data = <<"s", "t", "a", "t", "s">> THEN handle_stats_command(c)
        ELSE IF callback_data = <<"h", "e", "l", "p">> THEN handle_help_command(c)
        ELSE IF StartsWith(callback_data, <<"v", "i", "e", "w", "_", "i", "t", "e", "m", "_">>)
             THEN handle_get_command(c, <<Replace(callback_data, <<"v", "i", "e", "w", "_", "i", "t", "e", "m", "_">>)>>)
        ELSE IF StartsWith(callback_data, <<"d", "e", "l", "e", "t", "e", "_", "i", "t", "e", "m", "_">>)
             THEN handle_delete_command(c, <<Replace(callback_data, <<"d", "e", "l", "e", "t", "e", "_", "i", "t", "e", "m", "_">>)>>)
        ELSE IF StartsWith(callback_data, <<"c", "o", "n", "f", "i", "r", "m", "_", "d", "e", "l", "e", "t", "e", "_">>)
             THEN _confirm_delete_item(c, uid, Replace(callback_data, <<"c", "o", "n", "f", "i", "r", "m", "_", "d", "e", "l", "e", "t", "e", "_">>))
        ELSE IF StartsWith(callback_data, <<"c", "o", "p", "y", "_", "c", "o", "d", "e", "_">>)
             THEN Ret(c, Reply("copy_this_code",
                               <<Replace(callback_data, <<"c", "o", "p", "y", "_", "c", "o", "d", "e", "_">>)>>,
                               CancelKeyboard))
        ELSE IF StartsWith(callback_data, <<"p", "a", "g", "e", "_">>)
             THEN IF page.ok THEN _show_items_page(c, uid, page.val)
                  \* int() raised ValueError, caught by the handler's except
                  ELSE Ret(c, MenuReply("an_error_occurred", <<>>))
        ELSE IF callback_data = <<"c", "a", "n", "c", "e", "l", "_", "a", "c", "t", "i", "o", "n">>
             THEN [Ret(c, MenuReply("action_cancelled", <<>>))
                     EXCEPT !.states = _clear_user_state(c.states, user_id)]
        ELSE Raise(c)

handle_callback_query(c, callback_data) ==
    LET user_id == c.tg
        uid == get_by_telegram_id(c.users, user_id)
        page == ParseInt(Replace(callback_data, <<"p", "a", "g", "e", "_">>))
    IN  IF c.fault = "user" THEN Raise(c)
        ELSE IF uid = 0 THEN Ret(c, PleaseStartNoKeyboard)
        ELSE IF callback_data = <<"m", "a", "i", "n", "_", "m", "e", "n", "u">>
             THEN [Ret(c, MenuReply("main_menu", <<>>))
                     EXCEPT !.states = _clear_user_state(c.states, user_id)]
        ELSE IF callback_data = <<"s", "a", "v", "e", "_", "i", "t", "e", "m">>
             THEN [Ret(c, WaitingReply("send_content"))
                     EXCEPT !.states = _set_user_state(c.states, user_id,
                                           "waiting_for_content", [action |-> "save"])]
        ELSE IF callback_data = <<"l", "i", "s", "t", "_", "i", "t", "e", "m", "s">> THEN handle_list_command(c)
        ELSE IF callback_data = <<"g", "e", "t", "_", "i", "t", "e", "m">>
             THEN [Ret(c, WaitingReply("send_code_to_get"))
                     EXCEPT !.states = _set_user_state(c.states, user_id,
                                           "waiting_for_code", [action |-> "get"])]
        ELSE IF callback_data = <<"d", "e", "l", "e", "t", "e", "_", "i", "t", "e", "m">>
             THEN [Ret(c, WaitingReply("send_code_to_delete"))
                     EXCEPT !.states = _set_user_state(c.states, user_id,
                                           "waiting_for_delete_code",
                                           [action |-> "delete"])]
        ELSE IF callback_data = <<"s", "t", "a", "t", "s">> THEN handle_stats_command(c)
        ELSE IF callback_data = <<"h", "e", "l", "p">> THEN handle_help_command(c)
        ELSE IF StartsWith(callback_data, <<"v", "i", "e", "w", "_", "i", "t", "e", "m", "_">>)
             THEN handle_get_command(c, <<Replace(callback_data, <<"v", "i", "e", "w", "_", "i", "t", "e", "m", "_">>)>>)
        ELSE IF StartsWith(callback_data, <<"d", "e", "l", "e", "t", "e", "_", "i", "t", "e", "m", "_">>)
             THEN handle_delete_command(c, <<Replace(callback_data, <<"d", "e", "l", "e", "t", "e", "_", "i", "t", "e", "m", "_">>)>>)
        ELSE IF StartsWith(callback_data, <<"c", "o", "n", "f", "i", "r", "m", "_", "d", "e", "l", "e", "t", "e", "_">>)
             THEN _confirm_delete_item(c, uid, Replace(callback_data, <<"c", "o", "n", "f", "i", "r", "m", "_", "d", "e", "l", "e", "t", "e", "_">>))
        ELSE IF StartsWith(callback_data, <<"c", "o", "p", "y", "_", "c", "o", "d", "e", "_">>)
             THEN Ret(c, Reply("copy_this_code",
                               <<Replace(callback_data, <<"c", "o", "p", "y", "_", "c", "o", "d", "e", "_">>)>>,
                               CancelKeyboard))
        ELSE IF StartsWith(callback_data, <<"p", "a", "g", "e", "_">>)
             THEN IF page.ok THEN _show_items_page(c, uid, page.val)
                  \* int() raised ValueError, caught by the handler's except
                  ELSE Ret(c, MenuReply("an_error_occurred", <<>>))
        ELSE IF callback_data = <<"c", "a", "n", "c", "e", "l", "_", "a", "c", "t", "i", "o", "n">>
             THEN [Ret(c, MenuReply("action_cancelled", <<>>))
                     EXCEPT !.states = _clear_user_state(c.states, user_id)]
        ELSE Ret(c, MenuReply("unknown_action", <<>>))

_handle_save_content(c, uid, content) ==
    LET errors == validate_item_content(content)
        made == ItemService_create_item(c, uid, content)
    IN  IF errors # <<>> THEN Ret(c, MenuReply("validation_failed", <<errors>>))
        ELSE IF made.hang THEN [Ret(c, NoReply) EXCEPT !.hang = TRUE]
        ELSE IF made.ok
             THEN [Ret(c, SavedReply(made.items, made.id, content))
                     EXCEPT !.items = made.items,
                            !.states = _clear_user_state(c.states,
                                           c.users[uid].telegram_user_id)]
             ELSE Ret(c, MenuReply("failed_to_save_item", <<made.error>>))

_handle_get_by_code(c, uid, short_code) ==
    LET id == get_by_short_code(c.items, Strip(short_code))
    IN  IF c.fault = "item" THEN Ret(c, MenuReply("failed_to_retrieve_item", <<>>))
        ELSE IF id = 0 THEN Ret(c, MenuReply("item_not_found", <<short_code>>))
        ELSE IF c.items[id].owner_user_id # uid
             THEN Ret(c, MenuReply("no_permission_to_access", <<>>))
        ELSE [Ret(c, ItemDetailsReply(c.items, id))
                EXCEPT !.states = _clear_user_state(c.states,
                                      c.users[uid].telegram_user_id)]

\* _handle_delete_by_code without the test of the owner
_handle_delete_by_code_NoOwnerCheck(c, uid, short_code) ==
    LET id == get_by_short_code(c.items, Strip(short_code))
    IN  IF c.fault = "item" THEN Ret(c, MenuReply("failed_to_prepare_delete", <<>>))
        ELSE IF id = 0 THEN Ret(c, MenuReply("item_not_found", <<short_code>>))
        ELSE [Ret(c, DeleteConfirmationReply(c.items, id, short_code, Strip(short_code)))
                EXCEPT !.states =
                    _set_user_state(c.states, c.users[uid].telegram_user_id,
                                    "confirming_delete",
                                    [item_code |-> Strip(short_code)])]

_handle_delete_by_code(c, uid, short_code) ==
    LET id == get_by_short_code(c.items, Strip(short_code))
    IN  IF c.fault = "item" THEN Ret(c, MenuReply("failed_to_prepare_delete", <<>>))
        ELSE IF id = 0 THEN Ret(c, MenuReply("item_not_found", <<short_code>>))
        ELSE IF c.items[id].owner_user_id # uid
             THEN Ret(c, MenuReply("no_permission_to_delete", <<>>))
        ELSE [Ret(c, DeleteConfirmationReply(c.items, id, short_code, Strip(short_code)))
                EXCEPT !.states =
                    _set_user_state(c.states, c.users[uid].telegram_user_id,
                                    "confirming_delete",
                                    [item_code |-> Strip(short_code)])]

handle_text_message(c, text) ==
    LET user_id == c.tg
        \* _get_user_state stores the default before the user lookup
        c1 == [c EXCEPT !.states = _get_user_state(c.states, user_id)]
        user_state == c1.states[user_id]
        uid == get_by_telegram_id(c.users, user_id)
    IN  IF c.fault = "user" THEN Raise(c1)
        ELSE IF uid = 0 THEN Ret(c1, MenuReply("please_start_first", <<>>))
        ELSE IF user_state.state = "waiting_for_content"
             THEN _handle_save_content(c1, uid, text)
        ELSE IF user_state.state = "waiting_for_code"
             THEN _handle_get_by_code(c1, uid, text)
        ELSE IF user_state.state = "waiting_for_delete_code"
             THEN _handle_delete_by_code(c1, uid, text)
        ELSE Ret(c1, MenuReply("not_sure_what_to_do", <<>>))


(***************************************************************************)
(* TelegramService: the webhook processor.                                 *)
(***************************************************************************)
\* list(set)[-KeepLast:]: CPython lists a set of ints in the order of the
\* slots of its hash table (update_id mod table size; 2048 slots hold 1001
\* entries)
_cleanup_old_updates(ps) ==
    IF Cardinality(ps) > cleanup_threshold
    THEN {u \in ps : Cardinality({v \in ps : v % 2048 > u % 2048}) < KeepLast}
    ELSE ps

\* _is_update_processed with the cleanup before the membership test
_is_update_processed_CleansFirst(ps, update_id) ==
    LET kept == _cleanup_old_updates(ps)
    IN  [seen |-> update_id \in kept, processed |-> kept]

\* _is_update_processed without the cleanup
_is_update_processed_NeverCleans(ps, update_id) ==
    [seen |-> update_id \in ps, processed |-> ps]

\* whether the update was processed, and _processed_updates afterwards
_is_update_processed(ps, update_id) ==
    IF update_id \in ps THEN [seen |-> TRUE, processed |-> ps]
    ELSE IF Cardinality(ps) > cleanup_threshold
         THEN [seen |-> FALSE, processed |-> _cleanup_old_updates(ps)]
         ELSE [seen |-> FALSE, processed |-> ps]

Result(status, reason, type, reply, user_id, update_id) ==
    [status |-> status, reason |-> reason, type |-> type, reply |-> reply,
     user_id |-> user_id, update_id |-> update_id]

NoResult == Result("none", "", "", NoReply, 0, 0)

\* e: the engine and the tables ([users, items, states, processed]);
\* the outcome of a call: e afterwards, the rows of users written, the
\* returned dict, and hang
Outcome(e, h, res) ==
    [users |-> h.users, items |-> h.items, states |-> h.states, writes |-> h.writes,
     processed |-> e.processed, result |-> res, hang |-> h.hang]

Context(e, u, f, d) ==
    [users |-> e.users, items |-> e.items, states |-> e.states, writes |-> {},
     tg |-> u.from_id, fault |-> f, draw |-> d]

ErrorResult(u) == Result("error", "exception", "", NoReply, 0, u.update_id)

_process_callback_query(e, u, f, d) ==
    LET c == Context(e, u, f, d)
        c1 == Touched(c)
        h == handle_callback_query(c1, u.text)
    IN  IF f = "touch" THEN Outcome(e, Ret(c, NoReply), ErrorResult(u))
        ELSE IF h.raised THEN Outcome(e, h, ErrorResult(u))
        ELSE [Outcome(e, h, Result("processed", "", "callback_query", h.reply,
                                   get_by_telegram_id(c1.users, u.from_id),
                                   u.update_id))
                EXCEPT !.processed = e.processed \cup {u.update_id}]

\* _process_message with the id recorded before the routing
_process_message_RecordsFirst(e, u, f, d) ==
    LET c == Context(e, u, f, d)
        c1 == Touched(c)
        h == IF StartsWith(u.text, <<"/">>)
             THEN _process_command(c1, u.text)
             ELSE handle_text_message(c1, u.text)
        recorded == [e EXCEPT !.processed = e.processed \cup {u.update_id}]
    IN  IF f = "touch" THEN Outcome(recorded, Ret(c, NoReply), ErrorResult(u))
        ELSE IF h.raised THEN Outcome(recorded, h, ErrorResult(u))
        ELSE Outcome(recorded, h,
                     Result("processed", "", "message", h.reply,
                            get_by_telegram_id(c1.users, u.from_id), u.update_id))

_process_message(e, u, f, d) ==
    LET c == Context(e, u, f, d)
        c1 == Touched(c)
        h == IF StartsWith(u.text, <<"/">>)
             THEN _process_command(c1, u.text)
             ELSE handle_text_message(c1, u.text)
    IN  IF f = "touch" THEN Outcome(e, Ret(c, NoReply), ErrorResult(u))
        ELSE IF h.raised THEN Outcome(e, h, ErrorResult(u))
        ELSE [Outcome(e, h, Result("processed", "", "message", h.reply,
                                   get_by_telegram_id(c1.users, u.from_id),
                                   u.update_id))
                EXCEPT !.processed = e.processed \cup {u.update_id}]

process_webhook_update(e, u, f, d) ==
    LET chk == _is_update_processed(e.processed, u.update_id)
        e1 == [e EXCEPT !.processed = chk.processed]
        unchanged == [users |-> e.users, items |-> e.items, states |-> e.states,
                      writes |-> {}, reply |-> NoReply, raised |-> FALSE,
                      hang |-> FALSE]
    IN  IF u.kind \notin {"message", "callback_query"}
        THEN Outcome(e, unchanged,
                     Result("ignored", "No message or callback query in update",
                            "", NoReply, 0, 0))
        ELSE IF chk.seen
        THEN Outcome(e1, unchanged,
                     Result("ignored", "Already processed", "", NoReply, 0,
                            u.update_id))
        ELSE IF u.kind = "callback_query" THEN _process_callback_query(e1, u, f, d)
        ELSE _process_message(e1, u, f, d)

(***************************************************************************)
(* The updates delivered to the engine.                                    *)
(***************************************************************************)
MessageTexts ==
    {<<"/", "s", "t", "a", "r", "t">>, <<"/", "H", "e", "l", "p">>, <<"/", "m", "e", "n", "u">>, <<"/", "c", "a", "n", "c", "e", "l">>, <<"/", "s", "a", "v", "e">>, <<"/", "s", "a", "v", "e", " ", "a">>,
     <<"/", "l", "i", "s", "t">>, <<"/", "g", "e", "t", " ", "a">>, <<"/", "g", "e", "t">>, <<"/", "d", "e", "l", " ", "a">>, <<"/", "s", "t", "a", "t", "s">>,
     <<"/", "x">>, <<"a">>, <<" ">>}

CallbackPayloads ==
    {<<"m", "a", "i", "n", "_", "m", "e", "n", "u">>, <<"s", "a", "v", "e", "_", "i", "t", "e", "m">>, <<"l", "i", "s", "t", "_", "i", "t", "e", "m", "s">>, <<"g", "e", "t", "_", "i", "t", "e", "m">>,
     <<"d", "e", "l", "e", "t", "e", "_", "i", "t", "e", "m">>, <<"s", "t", "a", "t", "s">>, <<"h", "e", "l", "p">>, <<"v", "i", "e", "w", "_", "i", "t", "e", "m", "_", "a">>,
     <<"d", "e", "l", "e", "t", "e", "_", "i", "t", "e", "m", "_", "a">>, <<"c", "o", "n", "f", "i", "r", "m", "_", "d", "e", "l", "e", "t", "e", "_", "a">>, <<"c", "o", "p", "y", "_", "c", "o", "d", "e", "_", "a">>, <<"p", "a", "g", "e", "_", "1">>,
     <<"p", "a", "g", "e", "_", "x">>, <<"c", "a", "n", "c", "e", "l", "_", "a", "c", "t", "i", "o", "n">>, <<"z", "z", "z">>}

Update(update_id, kind, from_id, text) ==
    [update_id |-> update_id, kind |-> kind, from_id |-> from_id, text |-> text]

NoUpdate == Update(0, "none", 0, <<>>)

UpdatesWithId(update_id) ==
    {Update(update_id, "message", tg, t) : tg \in TgIds, t \in MessageTexts}
    \cup {Update(update_id, "callback_query", tg, t) : tg \in TgIds, t \in CallbackPayloads}
    \cup {Update(update_id, "other", 0, <<>>)}

\* the tables when the service starts: empty, or with a user and their
\* item, or with a user who has deleted their item
Seeds ==
    {[users |-> <<>>, items |-> <<>>],
     [users |-> <<[telegram_user_id |-> 2]>>,
      items |-> <<[owner_user_id |-> 1, short_code |-> <<"b">>, kind |-> "note",
                   content |-> <<"a">>, deleted |-> FALSE]>>],
     [users |-> <<[telegram_user_id |-> 1]>>,
      items |-> <<[owner_user_id |-> 1, short_code |-> <<"a">>, kind |-> "note",
                   content |-> <<"a">>, deleted |-> TRUE]>>]}

\* the store calls that can raise while an update is handled
Faults == {"none", "touch", "user", "get_user", "item"}

Engine ==
    [users |-> users, items |-> items, states |-> user_states,
     processed |-> processed_updates]

\* the outcomes of one call of process_webhook_update(u) on engine e with
\* every store call answering, one for each code the generator can accept
Answered(e, u) == {process_webhook_update(e, u, "none", d) : d \in ShortCodes}

\* the outcomes with the store call f raising when it is reached
Outcomes(e, u, f) ==
    {[fault |-> f, out |-> process_webhook_update(e, u, f, d)] : d \in ShortCodes}

\* the calls that return: a call that hangs does not, and a fault that is
\* never reached leaves the call as it is without the fault
Returned(e, u) ==
    LET answered == Answered(e, u)
    IN  {o \in Outcomes(e, u, "none") : ~o.out.hang}
        \cup {o \in UNION {Outcomes(e, u, f) : f \in Faults \ {"none"}} :
                 ~o.out.hang /\ o.out \notin answered}

(***************************************************************************)
(* Specification Spec: one TelegramService instance, its calls in          *)
(* sequence.                                                               *)
(***************************************************************************)
Init ==
    /\ \E seed \in Seeds : users = seed.users /\ items = seed.items
    /\ user_writes = {}
    /\ processed_updates = {}
    /\ user_states = EmptyDict
    /\ update = NoUpdate
    /\ fault = "none"
    /\ result = NoResult
    /\ http = [phase |-> "idle", response |-> 0, sent |-> "none"]
    /\ calls = <<>>

\* the effect of one returned call on the engine and the tables
Apply(u, o) ==
    /\ users' = o.out.users
    /\ items' = o.out.items
    /\ user_writes' = o.out.writes
    /\ user_states' = o.out.states
    /\ processed_updates' = o.out.processed
    /\ result' = o.out.result
    /\ fault' = o.fault
    /\ update' = u

\* Telegram delivers its next update (update ids count up) and
\* process_webhook_update handles it, from entry to return
Deliver ==
    /\ update.kind = "none"
    /\ Cardinality(processed_updates) < MaxUpdateId
    /\ \E u \in UpdatesWithId(Cardinality(processed_updates) + 1) :
          \E o \in Returned(Engine, u) : Apply(u, o)
    /\ UNCHANGED <<http, calls>>

\* the update just handled is delivered again at once, and handled again
Redeliver ==
    /\ update.kind # "none"
    /\ \E o \in Returned(Engine, update) : Apply(update, o)
    /\ UNCHANGED <<http, calls>>

\* the caller is done with the update
Return ==
    /\ update.kind # "none"
    /\ update' = NoUpdate
    /\ result' = NoResult
    /\ fault' = "none"
    /\ user_writes' = {}
    /\ UNCHANGED <<users, items, processed_updates, user_states, http, calls>>

Next == Deliver \/ Redeliver \/ Return

Spec == Init /\ [][Next]_vars

(***************************************************************************)
(* Properties of the calls in sequence (Spec).  A step that handles an     *)
(* update leaves it in update'; the step of Return leaves NoUpdate.        *)
(***************************************************************************)
\* a /save message whose content passes validate_item_content
SavesItem(u) ==
    /\ u.kind = "message"
    /\ Len(Split(u.text)) >= 2
    /\ Lower(Split(u.text)[1]) = <<"/", "s", "a", "v", "e">>
    /\ validate_item_content(Join(Tail(Split(u.text)))) = <<>>

\* this step is the first call with an update, every store call answering
FirstCall ==
    /\ update.kind = "none"
    /\ update'.kind \in {"message", "callback_query"}
    /\ fault' = "none"

\* this step is a second call with the update the call before has processed
SecondCall ==
    /\ update.kind # "none"
    /\ update' = update
    /\ result.status = "processed"

\* the second of two calls in sequence with one update is ignored as already
\* processed and creates no item, touches no user and changes no state
SecondCallIgnored ==
    SecondCall =>
        /\ result'.status = "ignored"
        /\ result'.reason = "Already processed"
        /\ items' = items
        /\ users' = users
        /\ user_writes' = {}
        /\ user_states' = user_states

\* C1: when process_webhook_update is called twice in sequence with one
\* update, the first call returns processed and, the update being a /save
\* with valid content, creates exactly one item; the second call returns
\* ignored (already processed), creates no item, touches no user and changes
\* no conversation state.
C1_SameUpdateTwice ==
    [][/\ FirstCall => result'.status = "processed"
       /\ FirstCall /\ SavesItem(update') => Len(items') = Len(items) + 1
       /\ SecondCallIgnored]_vars

\* the store calls whose exception no handler catches
RaisingFaults == {"touch", "user"}

\* C5: an update id is recorded only by a call that routed the update
\* without a thrown error; when the routing raises, the call returns status
\* error, the id is not in the processed set afterwards, and a redelivery of
\* the update is routed again, not ignored.
C5_RecordedOnlyAfterRouting ==
    [][update'.kind # "none" =>
         /\ processed_updates' # processed_updates =>
               /\ result'.status = "processed"
               /\ processed_updates' = processed_updates \cup {update'.update_id}
         /\ fault' \in RaisingFaults => result'.status = "error"
         /\ result'.status = "error" => update'.update_id \notin processed_updates'
         /\ update' = update /\ result.status = "error" =>
               result'.status # "ignored"]_vars

\* a call has raised inside the routing and returned error, its id unrecorded
C5_Witness ==
    /\ update.kind = "message"
    /\ fault = "user"
    /\ result.status = "error"
    /\ update.update_id \notin processed_updates
    /\ processed_updates # {}

\* the Telegram id of the owner of item row i
OwnerTg(us, its, i) == us[its[i].owner_user_id].telegram_user_id

\* row i is soft-deleted by this step
SoftDeleted(i) == ~items[i].deleted /\ items'[i].deleted

\* the callback_data of the buttons of a reply
Buttons(reply) ==
    UNION {{reply.keyboard.rows[r][b] : b \in DOMAIN reply.keyboard.rows[r]} :
              r \in DOMAIN reply.keyboard.rows}

\* C6: del <code> and delete_item_<code> never soft-delete; an item becomes
\* deleted only in the call that handles confirm_delete_<code> from its
\* owner, it stays deleted, and no list shown afterwards has it.
C6_DeleteOnlyOnConfirm ==
    [][\A i \in 1..Len(items) :
          /\ SoftDeleted(i) =>
                /\ update'.kind = "callback_query"
                /\ update'.text = <<"c", "o", "n", "f", "i", "r", "m", "_", "d", "e", "l", "e", "t", "e", "_">> \o items[i].short_code
                /\ update'.from_id = OwnerTg(users, items, i)
          /\ items[i].deleted =>
                /\ items'[i].deleted
                /\ <<"v", "i", "e", "w", "_", "i", "t", "e", "m", "_">> \o items[i].short_code
                      \notin Buttons(result'.reply)]_vars

\* the owner has confirmed the delete of an item and then asked for a
\* list, which shows another item
C6_Witness ==
    /\ update.kind = "message"
    /\ update.text = <<"/", "l", "i", "s", "t">>
    /\ result.status = "processed"
    /\ result.reply.text = "your_items"
    /\ \E i \in 1..Len(items) :
          items[i].deleted /\ OwnerTg(users, items, i) = update.from_id

\* C7: a call of sender B never returns the details of an item another
\* user created (get <code>, view_item_<code>, a code typed on request), and
\* never soft-deletes one (del, delete_item_<code>, confirm_delete_<code>).
C7_OwnerOnly ==
    [][update'.kind # "none" =>
         /\ result'.reply.text = "item_details" =>
               \E i \in 1..Len(items') :
                   /\ ~items'[i].deleted
                   /\ items'[i].short_code = result'.reply.args[1]
                   /\ OwnerTg(users', items', i) = update'.from_id
         /\ \A i \in 1..Len(items) :
               SoftDeleted(i) => OwnerTg(users, items, i) = update'.from_id]_vars

\* item row i is live and its owner is not the sender of the update
OthersItem(i) ==
    /\ ~items[i].deleted
    /\ update.kind # "none"
    /\ OwnerTg(users, items, i) # update.from_id

\* the code the update asks for, by command, button or typed text
AskedCode(u) ==
    IF u.kind = "message" /\ StartsWith(u.text, <<"/">>)
    THEN IF Len(Split(u.text)) = 2 THEN Split(u.text)[2] ELSE <<>>
    ELSE IF u.kind = "message" THEN Strip(u.text)
    ELSE IF StartsWith(u.text, <<"v", "i", "e", "w", "_", "i", "t", "e", "m", "_">>) THEN Replace(u.text, <<"v", "i", "e", "w", "_", "i", "t", "e", "m", "_">>)
    ELSE IF StartsWith(u.text, <<"d", "e", "l", "e", "t", "e", "_", "i", "t", "e", "m", "_">>)
         THEN Replace(u.text, <<"d", "e", "l", "e", "t", "e", "_", "i", "t", "e", "m", "_">>)
    ELSE IF StartsWith(u.text, <<"c", "o", "n", "f", "i", "r", "m", "_", "d", "e", "l", "e", "t", "e", "_">>)
         THEN Replace(u.text, <<"c", "o", "n", "f", "i", "r", "m", "_", "d", "e", "l", "e", "t", "e", "_">>)
    ELSE <<>>

\* B has asked for the item of another user, and to delete it, and was refused
C7_Witness ==
    /\ result.status = "processed"
    /\ result.reply.text \in {"no_permission_to_access", "no_permission_to_delete",
                               "failed_to_delete_item"}
    /\ \E i \in 1..Len(items) :
          OthersItem(i) /\ items[i].short_code = AskedCode(update)

\* the reply the update gets from this engine when no item has its code
ReplyWhenNoSuchCode(u) ==
    process_webhook_update([Engine EXCEPT !.items = <<>>, !.processed = {}],
                           u, "none", CHOOSE d \in ShortCodes : TRUE).result.reply

\* C8: the reply to get <code> or del <code> for a code another user owns is
\* the reply the same request gets for a code that does not exist.
C8_SameReplyAsNotFound ==
    /\ update.kind = "message"
    /\ Len(Split(update.text)) = 2
    /\ Lower(Split(update.text)[1]) \in {<<"/", "g", "e", "t">>, <<"/", "d", "e", "l">>}
    /\ result.status = "processed"
    /\ fault = "none"
    /\ \E i \in 1..Len(items) :
          OthersItem(i) /\ items[i].short_code = AskedCode(update)
    => result.reply = ReplyWhenNoSuchCode(update)

\* C10: is_short_code_available(code) is false for the code of every item
\* record, deleted or not: the generator accepts no code an item carries.
C10_NoItemCodeAvailable ==
    \A i \in 1..Len(items) :
        /\ ~is_short_code_available(items, items[i].short_code)
        /\ items[i].short_code \notin AvailableDraws(items)

(***************************************************************************)
(* Properties of the calls in sequence (Spec), continued.                  *)
(***************************************************************************)
\* the update is the command message /get with one code
GetsByCode(u) ==
    /\ u.kind = "message"
    /\ Len(Split(u.text)) = 2
    /\ Lower(Split(u.text)[1]) = <<"/", "g", "e", "t">>

\* C13: when a sender with no User record sends /get <code> through
\* process_webhook_update, the reply is the "please use /start first" text
\* with the main menu, and no item is returned, modified or deleted.
C13_UnknownSenderGet ==
    [][/\ FirstCall
       /\ GetsByCode(update')
       /\ get_by_telegram_id(users, update'.from_id) = 0
       => /\ result'.reply = MenuReply("please_start_first", <<>>)
          /\ items' = items]_vars

\* this step handles, with every store call answering, a free-text message
\* with valid content of a known user whose state is waiting_for_content
\* (the state a save_item tap has left)
TextAfterSaveTap ==
    /\ FirstCall
    /\ update'.kind = "message"
    /\ ~StartsWith(update'.text, <<"/">>)
    /\ validate_item_content(update'.text) = <<>>
    /\ get_by_telegram_id(users, update'.from_id) # 0
    /\ StateOf(user_states, update'.from_id).state = "waiting_for_content"

\* C14: for a known user, a save_item tap followed by a free text with
\* valid content creates exactly one item, with that content and kind note;
\* the reply to the text has the new short code, and the user's state is
\* idle afterwards.
C14_TapThenTextSaves ==
    [][TextAfterSaveTap =>
         /\ Len(items') = Len(items) + 1
         /\ SubSeq(items', 1, Len(items)) = items
         /\ items'[Len(items')].content = update'.text
         /\ items'[Len(items')].kind = "note"
         /\ ~items'[Len(items')].deleted
         /\ result'.reply.text = "item_saved"
         /\ result'.reply.args[2] = items'[Len(items')].short_code
         /\ StateOf(user_states', update'.from_id) = IdleState]_vars

\* this step handles a free-text message of a known user whose state is
\* waiting_for_content, and the call returns a reply
TextWhileWaitingForContent ==
    /\ update.kind = "none"
    /\ update'.kind = "message"
    /\ ~StartsWith(update'.text, <<"/">>)
    /\ get_by_telegram_id(users, update'.from_id) # 0
    /\ StateOf(user_states, update'.from_id).state = "waiting_for_content"
    /\ result'.status = "processed"

\* C16: after a free-text message is handled for a user whose state is
\* waiting_for_content, the user's state is idle, whether the content was
\* saved, failed validation, or the item creation failed.
C16_StateClearedAfterContent ==
    [][TextWhileWaitingForContent =>
         StateOf(user_states', update'.from_id) = IdleState]_vars

\* this step handles a confirm_delete_<code> callback with every store call
\* answering, and the call returns a reply
ConfirmDeleteHandled ==
    /\ FirstCall
    /\ update'.kind = "callback_query"
    /\ StartsWith(update'.text, <<"c", "o", "n", "f", "i", "r", "m", "_", "d", "e", "l", "e", "t", "e", "_">>)
    /\ result'.status = "processed"

\* C17: after a confirm_delete_<code> callback has been handled, the
\* sender's state is idle, whether the soft delete succeeded or failed (code
\* missing, already deleted, or not owned).
C17_StateClearedAfterConfirm ==
    [][ConfirmDeleteHandled =>
         StateOf(user_states', update'.from_id) = IdleState]_vars

\* this step handles the command del <code> of the owner of the item, and
\* the reply asks to confirm the delete
DelAccepted ==
    /\ FirstCall
    /\ update'.kind = "message"
    /\ Len(Split(update'.text)) = 2
    /\ Lower(Split(update'.text)[1]) = <<"/", "d", "e", "l">>
    /\ result'.reply.text = "delete_confirmation"

\* C18: after a successful del <code> of the owner with external id e, the
\* state stored under the key e is confirming_delete with the code attached,
\* and the item is still not deleted.
C18_ConfirmingUnderExternalId ==
    [][DelAccepted =>
         /\ StateOf(user_states', update'.from_id) =
               [state |-> "confirming_delete",
                data |-> [item_code |-> AskedCode(update')]]
         /\ get_by_short_code(items', AskedCode(update')) # 0]_vars

\* the tags of the states in which the next free text is awaited
AwaitingTags == {"waiting_for_content", "waiting_for_code", "waiting_for_delete_code"}

\* the tag each menu selection sets
AwaitingTagOf(callback_data) ==
    CASE callback_data = <<"s", "a", "v", "e", "_", "i", "t", "e", "m">> -> "waiting_for_content"
      [] callback_data = <<"g", "e", "t", "_", "i", "t", "e", "m">> -> "waiting_for_code"
      [] callback_data = <<"d", "e", "l", "e", "t", "e", "_", "i", "t", "e", "m">> -> "waiting_for_delete_code"
      [] OTHER -> "none"

\* this step stores an awaiting tag under key k that was not there before
EntersAwaiting(k) ==
    /\ k \in DOMAIN user_states'
    /\ user_states'[k].state \in AwaitingTags
    /\ k \in DOMAIN user_states => user_states[k].state # user_states'[k].state

\* C19: a state with an awaiting tag is entered only by a call that handles
\* a save_item, get_item or delete_item callback, for its sender; no command
\* message and no free-text message sets one.
C19_AwaitingOnlyFromMenu ==
    [][\A k \in DOMAIN user_states' :
          EntersAwaiting(k) =>
              /\ update'.kind = "callback_query"
              /\ update'.from_id = k
              /\ AwaitingTagOf(update'.text) = user_states'[k].state]_vars

\* a delete_item tap has left its sender waiting for the code, and a
\* command of the sender is handled after it
C19_Witness ==
    /\ update.kind = "message"
    /\ StartsWith(update.text, <<"/">>)
    /\ result.status = "processed"
    /\ StateOf(user_states, update.from_id).state = "waiting_for_delete_code"

\* C21: when the item store raises while a handler is routing an update
\* (during item creation in save, item lookup in get), the engine result has
\* status error and the update id is not recorded as processed.
C21_ItemStoreFailureIsError ==
    [][update'.kind # "none" /\ fault' = "item" =>
         /\ result'.status = "error"
         /\ update'.update_id \notin processed_updates']_vars

\* the row ids of the User records with this external id
UsersOf(us, tg) == {i \in 1..Len(us) : us[i].telegram_user_id = tg}

\* C26: after an update that passes the dedup check and does not end in
\* error exactly one User record has the sender's external id; the
\* internal id and the external id of a User never change and no step
\* removes a User.
C26_OneUserPerSender ==
    [][/\ (update'.kind # "none" /\ result'.status = "processed"
             => Cardinality(UsersOf(users', update'.from_id)) = 1)
       /\ Len(users') >= Len(users)
       /\ \A i \in 1..Len(users) :
            users'[i].telegram_user_id = users[i].telegram_user_id]_vars

\* a later event of a known sender was processed after another sender's
\* first event had created a second record
C26_Witness ==
    /\ result.status = "processed"
    /\ update.from_id = 2
    /\ Len(users) = 2
    /\ UsersOf(users, 2) = {1}
    /\ UsersOf(users, 1) = {2}
    /\ user_writes = {1}

\* C37: an update id enters the processed set only in a call for that id
\* that returns processed; a call that returns ignored or error adds no id,
\* and a call that returns processed leaves its id in the set.
C37_RecordedIffProcessed ==
    [][update'.kind # "none" =>
         /\ processed_updates' \subseteq processed_updates \cup {update'.update_id}
         /\ result'.status \in {"ignored", "error"} =>
              processed_updates' \subseteq processed_updates
         /\ result'.status = "processed" =>
              update'.update_id \in processed_updates']_vars

\* a call has returned error after another had been processed: its id is
\* not in the set, the id of the other is
C37_Witness ==
    /\ result.status = "error"
    /\ update.update_id = 2
    /\ processed_updates = {1}

(***************************************************************************)
(* Specification SpecWebhook: the POSTs to /telegram/webhook.  FastAPI     *)
(* resolves Depends(get_telegram_service) for each request, then runs      *)
(* telegram_webhook.  The tables are those of the default build: SQLite in *)
(* autocommit mode, where every flush is final.                            *)
(***************************************************************************)
\* TelegramService.__init__: what a new instance holds
TelegramService == [processed |-> {}, states |-> EmptyDict]

Http(phase, response, sent) == [phase |-> phase, response |-> response, sent |-> sent]

\* what happens to the sendMessage request of send_telegram_response:
\* Telegram answers 200 with ok, answers anything else, or the request
\* raises (a timeout, no connection)
SendOutcomes == {"delivered", "refused", "exception"}

\* send_telegram_response: True only for a 200 answer with ok, False for
\* any other answer and for an exception, which it catches
send_telegram_response(outcome) == outcome = "delivered"

\* get_telegram_service: the request gets a TelegramService of its own
WebhookConstruct ==
    /\ http.phase = "idle"
    /\ http' = Http("constructed", 0, "none")
    /\ processed_updates' = TelegramService.processed
    /\ user_states' = TelegramService.states
    /\ UNCHANGED <<users, items, user_writes, update, fault, result, calls>>

\* telegram_webhook with a wrong bot token
WebhookRejected ==
    /\ http.phase = "constructed"
    /\ http' = Http("idle", 401, "none")
    /\ UNCHANGED <<users, items, user_writes, processed_updates, user_states,
                   update, fault, result, calls>>

\* the status of the HTTP response of telegram_webhook for a result of
\* process_webhook_update: chat_id is bound only under status processed, and
\* reading it unbound raises, which the handler turns into a 500
Response(res) == IF res.status = "processed" THEN 200 ELSE 500

\* telegram_webhook with the next update of Telegram, up to the await of
\* send_telegram_response, which it reaches under status processed only
WebhookPost ==
    /\ http.phase = "constructed"
    /\ update.update_id < MaxPosts
    /\ \E u \in UpdatesWithId(update.update_id + 1) :
          \E o \in Returned(Engine, u) :
              Apply(u, o) /\ http' = IF o.out.result.status = "processed"
                                     THEN Http("sending", 0, "none")
                                     ELSE Http("idle", Response(o.out.result), "none")
    /\ UNCHANGED calls

\* telegram_webhook with the update of the POST before, delivered again
WebhookRepost ==
    /\ http.phase = "constructed"
    /\ update.kind # "none"
    /\ \E o \in Returned(Engine, update) :
          Apply(update, o) /\ http' = IF o.out.result.status = "processed"
                                     THEN Http("sending", 0, "none")
                                     ELSE Http("idle", Response(o.out.result), "none")
    /\ UNCHANGED calls

\* WebhookSend with a failed delivery taking the update out of the
\* processed ids
WebhookSend_ForgetsUpdateOnFailure ==
    /\ http.phase = "sending"
    /\ \E outcome \in SendOutcomes :
          /\ http' = Http("idle", Response(result), outcome)
          /\ processed_updates' =
                IF send_telegram_response(outcome) THEN processed_updates
                ELSE processed_updates \ {update.update_id}
    /\ UNCHANGED <<users, items, user_writes, user_states, update, fault,
                   result, calls>>

\* telegram_webhook from the await of send_telegram_response to its
\* return: the outcome of the delivery is logged and the response is the
\* success response either way
WebhookSend ==
    /\ http.phase = "sending"
    /\ \E outcome \in SendOutcomes : http' = Http("idle", Response(result), outcome)
    /\ UNCHANGED <<users, items, user_writes, processed_updates, user_states,
                   update, fault, result, calls>>

NextWebhook ==
    WebhookConstruct \/ WebhookRejected \/ WebhookPost \/ WebhookRepost \/ WebhookSend

SpecWebhook == Init /\ [][NextWebhook]_vars

\* this step is telegram_webhook handling the update of the POST before,
\* which process_webhook_update had processed
SecondPost ==
    /\ http.phase = "constructed"
    /\ http'.response # 401
    /\ update.kind # "none"
    /\ update' = update
    /\ result.status = "processed"

\* C3: when one update is delivered in two webhook POSTs, the second POST
\* has no side effect: its result is ignored, and it creates no item and
\* writes no user.
C3_SecondPostIgnored ==
    [][SecondPost =>
         /\ result'.status = "ignored"
         /\ items' = items
         /\ users' = users
         /\ user_writes' = {}]_vars

\* C4: the conversation state set for a user in one webhook request is the
\* state the engine of the next webhook request holds for that user.
C4_StateKeptAcrossRequests ==
    [][http.phase = "idle" /\ http'.phase = "constructed" =>
         \A tg \in TgIds :
             StateOf(user_states', tg) = StateOf(user_states, tg)]_vars

(***************************************************************************)
(* Properties of the webhook POSTs (SpecWebhook), continued.               *)
(***************************************************************************)
\* telegram_webhook has answered the POST of update, whose engine result
\* is in result
PostAnswered ==
    /\ http.phase = "idle"
    /\ http.response \in {200, 500}
    /\ update.kind # "none"

\* C20: for every update whose engine result has status error or ignored,
\* the webhook receiver still returns a success response; it never fails
\* the HTTP request because of the engine's result status.
C20_SuccessWhateverTheResult ==
    PostAnswered /\ result.status \in {"error", "ignored"} => http.response = 200

\* this step is the delivery of the reply, and it fails
DeliveryFails ==
    /\ http.phase = "sending"
    /\ http'.sent \in SendOutcomes
    /\ ~send_telegram_response(http'.sent)

\* C27: a failed delivery of the reply changes no engine or store state:
\* the items, the users, the conversation states and the processed update
\* ids made while handling the update stay as they were; the delivery is
\* not tried again, the request ends.
C27_FailedDeliveryKeepsState ==
    [][DeliveryFails =>
         /\ items' = items
         /\ users' = users
         /\ user_states' = user_states
         /\ processed_updates' = processed_updates
         /\ update.update_id \in processed_updates'
         /\ http'.phase = "idle"]_vars

\* the request that saved an item has ended after a delivery that raised
C27_Witness ==
    /\ http.phase = "idle"
    /\ http.sent = "exception"
    /\ result.reply.text = "item_saved"
    /\ update.update_id \in processed_updates
    /\ \E i \in 1..Len(items) : items[i].short_code = result.reply.args[1]

(***************************************************************************)
(* Specification SpecConc: calls of process_webhook_update that run        *)
(* concurrently on one TelegramService instance, every store call          *)
(* answering.  The event loop switches calls at an await: a call runs from *)
(* its entry to the await of create_or_update_user, from there through its *)
(* handler, and a handler that saves an item stops once more, between the  *)
(* generator's availability query and the INSERT.  The other awaits of a   *)
(* handler are taken without a switch.                                     *)
(***************************************************************************)
\* the updates delivered while calls are running: those that save an item
\* or delete one
ConcUpdates(update_id) ==
    {u \in UpdatesWithId(update_id) :
        \/ u.kind = "message"
           /\ u.text \in {<<"/", "s", "a", "v", "e", " ", "a">>, <<"a">>}
        \/ u.kind = "callback_query"
           /\ u.text \in {<<"s", "a", "v", "e", "_", "i", "t", "e", "m">>, <<"c", "o", "n", "f", "i", "r", "m", "_", "d", "e", "l", "e", "t", "e", "_", "a">>}}

Call(u, pc, code, res) == [update |-> u, pc |-> pc, code |-> code, result |-> res]

Max(s) == CHOOSE x \in s : \A y \in s : y <= x

\* the id of the next update of Telegram
NextUpdateId ==
    1 + Max(processed_updates \cup {calls[i].update.update_id : i \in DOMAIN calls}
            \cup {0})

\* handle_save_command and _handle_save_content reach the generator
ReachesGenerator(u) ==
    \/ SavesItem(u)
    \/ /\ u.kind = "message"
       /\ ~StartsWith(u.text, <<"/">>)
       /\ StateOf(user_states, u.from_id).state = "waiting_for_content"
       /\ validate_item_content(u.text) = <<>>

\* process_webhook_update from its entry to the first await: an update
\* seen before is ignored, any other goes on to create_or_update_user
Enter ==
    /\ Len(calls) < MaxCalls
    /\ \E u \in {calls[i].update : i \in DOMAIN calls}
               \cup (IF NextUpdateId <= MaxUpdateId
                     THEN ConcUpdates(NextUpdateId) ELSE {}) :
          LET chk == _is_update_processed(processed_updates, u.update_id)
              ignored == process_webhook_update(Engine, u, "none", <<>>)
          IN  /\ processed_updates' = chk.processed
              /\ calls' = Append(calls,
                            IF chk.seen THEN Call(u, "done", <<>>, ignored.result)
                            ELSE Call(u, "touch", <<>>, NoResult))
    /\ UNCHANGED <<users, items, user_writes, user_states, update, fault, result,
                   http>>

\* a call goes on from create_or_update_user through its handler and returns
RunHandler ==
    \E i \in DOMAIN calls :
        /\ calls[i].pc = "touch"
        /\ ~ReachesGenerator(calls[i].update)
        /\ LET u == calls[i].update
               o == IF u.kind = "callback_query"
                    THEN _process_callback_query(Engine, u, "none", <<>>)
                    ELSE _process_message(Engine, u, "none", <<>>)
           IN  /\ users' = o.users
               /\ items' = o.items
               /\ user_states' = o.states
               /\ processed_updates' = o.processed
               /\ calls' = [calls EXCEPT ![i] = Call(u, "done", <<>>, o.result)]
        /\ UNCHANGED <<user_writes, update, fault, result, http>>

\* a call goes on from create_or_update_user into the handler that saves,
\* up to the draw is_short_code_available accepts
Generate ==
    \E i \in DOMAIN calls :
        /\ calls[i].pc = "touch"
        /\ ReachesGenerator(calls[i].update)
        /\ users' = create_or_update_user(users, calls[i].update.from_id).users
        /\ \E d \in AvailableDraws(items) :
              calls' = [calls EXCEPT ![i] = Call(calls[i].update, "insert", d, NoResult)]
        /\ UNCHANGED <<items, user_writes, processed_updates, user_states, update,
                       fault, result, http>>

\* the call inserts the item under the accepted code, replies, records the
\* update id and returns
Insert ==
    \E i \in DOMAIN calls :
        /\ calls[i].pc = "insert"
        /\ LET u == calls[i].update
               uid == get_by_telegram_id(users, u.from_id)
               command == StartsWith(u.text, <<"/">>)
               content == IF command THEN Join(Tail(Split(u.text))) ELSE u.text
               made == create_item(items, uid, calls[i].code,
                                   _detect_content_kind(content), content)
               reply == IF made.ok THEN SavedReply(made.items, made.id, content)
                        ELSE MenuReply("failed_to_save_item", <<<<"I", "n", "t", "e", "g", "r", "i", "t", "y", "E", "r", "r", "o", "r">>>>)
           IN  /\ items' = made.items
               /\ user_states' = IF made.ok /\ ~command
                                 THEN _clear_user_state(user_states, u.from_id)
                                 ELSE user_states
               /\ processed_updates' = processed_updates \cup {u.update_id}
               /\ calls' = [calls EXCEPT ![i] =
                              Call(u, "done", calls[i].code,
                                   Result("processed", "", "message", reply, uid,
                                          u.update_id))]
        /\ UNCHANGED <<users, user_writes, update, fault, result, http>>

\* the callers have their results
Respond ==
    /\ calls # <<>>
    /\ \A i \in DOMAIN calls : calls[i].pc = "done"
    /\ calls' = <<>>
    /\ UNCHANGED <<users, items, user_writes, processed_updates, user_states,
                   update, fault, result, http>>

NextConc == Enter \/ RunHandler \/ Generate \/ Insert \/ Respond

SpecConc == Init /\ [][NextConc]_vars

\* the call was ignored at the dedup check
Ignored(call) == call.pc = "done" /\ call.result.status = "ignored"

\* C2: of two calls that run concurrently with one update id, at most one
\* goes past the dedup check and the other returns ignored, so the update
\* is processed at most once.
C2_AtMostOnePastDedup ==
    \A i, j \in DOMAIN calls :
        i # j /\ calls[i].update.update_id = calls[j].update.update_id
        => Ignored(calls[i]) \/ Ignored(calls[j])

\* C9: no two items that are not deleted carry the same short code.
C9_LiveCodesUnique ==
    \A i, j \in 1..Len(items) :
        i # j /\ ~items[i].deleted /\ ~items[j].deleted
        => items[i].short_code # items[j].short_code

\* two saves have raced for one code: one item carries it, the other save
\* failed at the INSERT
C9_Witness ==
    \E k \in DOMAIN calls :
        /\ calls[k].pc = "done"
        /\ calls[k].result.reply.text = "failed_to_save_item"
        /\ \E i \in 1..Len(items) :
              ~items[i].deleted /\ items[i].short_code = calls[k].code

(***************************************************************************)
(* Properties of the concurrent calls (SpecConc), continued.               *)
(***************************************************************************)
\* calls k and j are the saves of two updates that have both returned,
\* after the availability check had accepted one and the same code for both
RacedForOneCode(k, j) ==
    /\ k # j
    /\ calls[k].update.update_id # calls[j].update.update_id
    /\ calls[k].pc = "done"
    /\ calls[j].pc = "done"
    /\ calls[k].code # <<>>
    /\ calls[k].code = calls[j].code

\* C11: when two concurrent creations got the same code from the
\* availability check, the losing insert is retried with a fresh code: both
\* saves reply with a saved item, under distinct codes, and no reply shows
\* the failure of the insert.
C11_RacedSavesBothStored ==
    \A k, j \in DOMAIN calls :
        RacedForOneCode(k, j) =>
            /\ calls[k].result.reply.text = "item_saved"
            /\ calls[j].result.reply.text = "item_saved"
            /\ calls[k].result.reply.args[2] # calls[j].result.reply.args[2]

\* call k handles a free-text message that handle_text_message took as
\* save content: it went on to the generator
TextTakenAsContent(k) ==
    /\ calls[k].update.kind = "message"
    /\ ~StartsWith(calls[k].update.text, <<"/">>)
    /\ calls[k].pc \in {"insert", "done"}
    /\ calls[k].code # <<>>

\* no call in flight is a save_item tap of this sender
NoSaveTapInFlight(tg) ==
    \A c \in DOMAIN calls :
        ~(/\ calls[c].update.kind = "callback_query"
          /\ calls[c].update.from_id = tg
          /\ calls[c].update.text = <<"s", "a", "v", "e", "_", "i", "t", "e", "m">>)

\* C12: of two free-text updates of one user that are handled concurrently
\* while the user's state is waiting_for_content, only one is taken as save
\* content; the other finds the state cleared.
C12_OneTextIsSaveContent ==
    \A k, j \in DOMAIN calls :
        /\ k # j
        /\ calls[k].update.update_id # calls[j].update.update_id
        /\ calls[k].update.from_id = calls[j].update.from_id
        /\ NoSaveTapInFlight(calls[k].update.from_id)
        => ~(TextTakenAsContent(k) /\ TextTakenAsContent(j))

(***************************************************************************)
(* Specification SpecRoundTrip: one TelegramService instance and the calls *)
(* that save contents of several shapes, get them back and delete them.    *)
(***************************************************************************)
RoundTripTexts ==
    {<<"/", "s", "a", "v", "e", " ", "a">>, <<"/", "s", "a", "v", "e", " ", "w", "w", "w", ".", "a">>, <<"/", "s", "a", "v", "e", " ", " ", "a", " ", " ", "b">>, <<"/", "g", "e", "t", " ", "a">>, <<"/", "g", "e", "t", " ", "b">>,
     <<" ", "a">>, <<"x", ".", "i", "o">>}

RoundTripPayloads == {<<"s", "a", "v", "e", "_", "i", "t", "e", "m">>, <<"c", "o", "n", "f", "i", "r", "m", "_", "d", "e", "l", "e", "t", "e", "_", "a">>}

RoundTripUpdates(update_id) ==
    {Update(update_id, "message", tg, t) : tg \in TgIds, t \in RoundTripTexts}
    \cup {Update(update_id, "callback_query", tg, t) :
             tg \in TgIds, t \in RoundTripPayloads}

\* Telegram delivers its next update, one that saves, gets or deletes, and
\* process_webhook_update handles it, from entry to return
DeliverContent ==
    /\ update.kind = "none"
    /\ Cardinality(processed_updates) < MaxUpdateId
    /\ \E u \in RoundTripUpdates(Cardinality(processed_updates) + 1) :
          \E o \in Returned(Engine, u) : Apply(u, o)
    /\ UNCHANGED <<http, calls>>

NextRoundTrip == DeliverContent \/ Return

SpecRoundTrip == Init /\ [][NextRoundTrip]_vars

\* the content a saving update hands to ItemService.create_item: the
\* arguments of /save joined by single spaces, or the free text as it is
SavedContent(u) ==
    IF StartsWith(u.text, <<"/">>) THEN Join(Tail(Split(u.text))) ELSE u.text

\* this step has saved the content c of its update and replied with code k:
\* row k holds c and the classifier's kind for c, for the sender
SaveStoresContent ==
    update'.kind # "none" /\ result'.reply.text = "item_saved" =>
        /\ Len(items') = Len(items) + 1
        /\ LET new == items'[Len(items')]
               c == SavedContent(update')
           IN  /\ new.short_code = result'.reply.args[2]
               /\ new.content = c
               /\ new.kind = _detect_content_kind(c)
               /\ new.owner_user_id = get_by_telegram_id(users', update'.from_id)
               /\ ~new.deleted

\* no step changes the code, content, kind or owner of a stored item
RowsKeepContent ==
    /\ Len(items') >= Len(items)
    /\ \A i \in 1..Len(items) :
          items' [i] = [items[i] EXCEPT !.deleted = items'[i].deleted]

\* get k by the owner of the item k that is not deleted returns the content
\* and the kind of its row
GetReturnsRow ==
    FirstCall /\ GetsByCode(update') =>
        \A i \in 1..Len(items) :
            /\ ~items[i].deleted
            /\ items[i].short_code = AskedCode(update')
            /\ items[i].owner_user_id = get_by_telegram_id(users, update'.from_id)
            => /\ result'.reply.text = "item_details"
               /\ result'.reply.args =
                     <<items[i].short_code, <<Title(items[i].kind)>>, items[i].content>>

\* C15: if saving content c returns code k, a later get k by the same owner,
\* with no delete of k in between, returns content equal to c and the kind
\* the classifier gives for c: the save stores c and the classifier's kind
\* under k, no later step changes them, and get k returns what row k holds.
C15_SaveGetRoundTrip ==
    [][SaveStoresContent /\ RowsKeepContent /\ GetReturnsRow]_vars

\* a get by the owner has returned a content with outer whitespace and one
\* of kind url, saved earlier
C15_Witness ==
    /\ GetsByCode(update)
    /\ fault = "none"
    /\ result.reply.text = "item_details"
    /\ \E i \in 1..Len(items) :
          /\ items[i].short_code = AskedCode(update)
          /\ ~items[i].deleted
          /\ items[i].content \in {<<" ", "a">>, <<"x", ".", "i", "o">>, <<"w", "w", "w", ".", "a">>, <<"a", " ", "b">>}
          /\ result.reply.args[3] = items[i].content

(***************************************************************************)
(* Specification SpecCleanup: one TelegramService instance that has        *)
(* processed cleanup_threshold updates or one more, whose ids Telegram     *)
(* counted up from some first id, and the calls that follow.  The ids were *)
(* recorded in ascending order, so the most recently recorded ids are the  *)
(* largest.                                                                *)
(***************************************************************************)
\* the id of the first of the updates processed so far
FirstIds == {1, 500, 1048, 1500, 2047, 3000, 4000, 5000}

CleanupTexts == {<<"/", "h", "e", "l", "p">>, <<"/", "s", "t", "a", "r", "t">>}

InitCleanup ==
    /\ users = <<>>
    /\ items = <<>>
    /\ user_writes = {}
    /\ \E first \in FirstIds, n \in {cleanup_threshold, cleanup_threshold + 1} :
          processed_updates = first..(first + n - 1)
    /\ user_states = EmptyDict
    /\ update = NoUpdate
    /\ fault = "none"
    /\ result = NoResult
    /\ http = [phase |-> "idle", response |-> 0, sent |-> "none"]
    /\ calls = <<>>

\* Telegram delivers its next update and process_webhook_update handles it,
\* every store call answering
DeliverNext ==
    /\ update.kind = "none"
    /\ Cardinality(processed_updates) # KeepLast + 2
    /\ \E tg \in TgIds, t \in CleanupTexts :
          LET u == Update(Max(processed_updates) + 1, "message", tg, t)
              d == CHOOSE c \in ShortCodes : TRUE
          IN  Apply(u, [fault |-> "none",
                        out |-> process_webhook_update(Engine, u, "none", d)])
    /\ UNCHANGED <<http, calls>>

\* Telegram delivers again an update processed before: the first or the
\* last of the ids held, or one that a cleanup of the set would drop
DeliverSeen ==
    /\ update.kind = "none"
    /\ LET dropped == processed_updates \ _cleanup_old_updates(processed_updates)
           again == {CHOOSE x \in processed_updates : \A y \in processed_updates : x <= y,
                     Max(processed_updates)}
                    \cup (IF dropped = {} THEN {} ELSE {Max(dropped)})
       IN  \E id \in again, tg \in TgIds :
              LET u == Update(id, "message", tg, <<"/", "h", "e", "l", "p">>)
                  d == CHOOSE c \in ShortCodes : TRUE
              IN  Apply(u, [fault |-> "none",
                            out |-> process_webhook_update(Engine, u, "none", d)])
    /\ UNCHANGED <<http, calls>>

NextCleanup == DeliverNext \/ DeliverSeen \/ Return

SpecCleanup == InitCleanup /\ [][NextCleanup]_vars

\* the n ids of ps recorded last, the ids being recorded in ascending order
MostRecent(ps, n) == {u \in ps : Cardinality({v \in ps : v > u}) < n}

\* this step handles an update while the processed set is over its threshold
Prunes ==
    /\ update'.kind # "none"
    /\ update'.update_id \notin processed_updates
    /\ Cardinality(processed_updates) > cleanup_threshold

\* C22: whenever the processed set is pruned (its size exceeds 1000),
\* exactly the 500 most recently recorded update ids are kept and every id
\* recorded earlier is dropped.
C22_KeepsMostRecent ==
    [][Prunes =>
         processed_updates' \ {update'.update_id}
            = MostRecent(processed_updates, KeepLast)]_vars

\* C35: an update id that is in the processed set when its dedup check
\* begins is reported as already processed, also when the set is over the
\* cleanup threshold then; the check drops nothing.
C35_SeenIdStaysSeen ==
    [][update'.kind # "none" /\ update'.update_id \in processed_updates =>
         /\ result'.status = "ignored"
         /\ result'.reason = "Already processed"
         /\ processed_updates' = processed_updates]_vars

\* an id that a cleanup would have dropped was delivered again while the
\* set was over the threshold, and was ignored
C35_Witness ==
    /\ result.reason = "Already processed"
    /\ Cardinality(processed_updates) > cleanup_threshold
    /\ update.update_id \notin _cleanup_old_updates(processed_updates)

\* C36: the processed set never holds more than cleanup_threshold + 1
\* ids; a dedup check of an id not seen that finds more than
\* cleanup_threshold ids leaves KeepLast of them before the id is recorded.
C36_ProcessedSetBounded ==
    /\ [](Cardinality(processed_updates) <= cleanup_threshold + 1)
    /\ [][Prunes =>
            Cardinality(processed_updates' \ {update'.update_id}) = KeepLast]_vars

\* the set grew to cleanup_threshold + 1 ids and the next update was
\* recorded after the cleanup
C36_Witness ==
    /\ update.kind # "none"
    /\ result.status = "processed"
    /\ Cardinality(processed_updates) = KeepLast + 1

(***************************************************************************)
(* Specification SpecPages: one TelegramService instance, two users, a     *)
(* table of up to MaxListed items, and the taps on page_<p> buttons.       *)
(***************************************************************************)
\* the items table with n rows; when mixed, every third row belongs to the
\* second user and every fourth row of the first user is deleted
ItemRows(n, mixed) ==
    [i \in 1..n |->
        [owner_user_id |-> IF mixed /\ i % 3 = 0 THEN 2 ELSE 1,
         short_code |-> NatToStr(i), kind |-> "note", content |-> <<"a">>,
         deleted |-> mixed /\ i % 4 = 1]]

InitPages ==
    /\ users = <<[telegram_user_id |-> 1], [telegram_user_id |-> 2]>>
    /\ \E n \in 1..MaxListed, mixed \in BOOLEAN : items = ItemRows(n, mixed)
    /\ user_writes = {}
    /\ processed_updates = {}
    /\ user_states = EmptyDict
    /\ update = NoUpdate
    /\ fault = "none"
    /\ result = NoResult
    /\ http = [phase |-> "idle", response |-> 0, sent |-> "none"]
    /\ calls = <<>>

\* the pages asked for
PageNumbers == {-1, 0, 1, 2, 3, 5}

\* a user taps a page_<p> button and process_webhook_update handles the
\* callback, every store call answering
TapPage ==
    /\ update.kind = "none"
    /\ Cardinality(processed_updates) < MaxUpdateId
    /\ \E tg \in TgIds, p \in PageNumbers :
          LET u == Update(Cardinality(processed_updates) + 1, "callback_query", tg,
                          <<"p", "a", "g", "e", "_">> \o IntToStr(p))
              d == CHOOSE c \in ShortCodes : TRUE
          IN  Apply(u, [fault |-> "none",
                        out |-> process_webhook_update(Engine, u, "none", d)])
    /\ UNCHANGED <<http, calls>>

NextPages == TapPage \/ Return

SpecPages == InitPages /\ [][NextPages]_vars

\* ceil(n / 5)
PagesOf(n) == IF n % ItemsPerPage = 0 THEN n \div ItemsPerPage ELSE n \div ItemsPerPage + 1

\* the page rendered for a request of page p out of total pages
RenderedPage(p, total) == IF p < 0 \/ p >= total THEN 0 ELSE p

\* the callback_data of the rows of item buttons of a reply, in order
ItemButtonRows(reply) ==
    SelectSeq(reply.keyboard.rows, LAMBDA row : StartsWith(row[1], <<"v", "i", "e", "w", "_", "i", "t", "e", "m", "_">>))

\* the callback_data of the Previous and Next buttons of a reply
NavButtons(reply) == {b \in Buttons(reply) : StartsWith(b, <<"p", "a", "g", "e", "_">>)}

\* the reply renders page r of the list ids (row ids, newest first)
RendersPage(reply, its, ids, r) ==
    LET n == Len(ids)
        first == ItemsPerPage * r + 1
        last == IF ItemsPerPage * r + ItemsPerPage < n
                THEN ItemsPerPage * r + ItemsPerPage ELSE n
    IN  /\ reply.text = "your_items"
        /\ reply.args = <<IntToStr(n), IntToStr(r + 1), IntToStr(PagesOf(n))>>
        /\ ItemButtonRows(reply) =
              [i \in 1..(last - first + 1) |->
                  <<<<"v", "i", "e", "w", "_", "i", "t", "e", "m", "_">> \o its[ids[first + i - 1]].short_code>>]
        /\ NavButtons(reply) =
              (IF r > 0 THEN {<<"p", "a", "g", "e", "_">> \o IntToStr(r - 1)} ELSE {})
              \cup (IF r + 1 < PagesOf(n) THEN {<<"p", "a", "g", "e", "_">> \o IntToStr(r + 1)} ELSE {})

\* C23: for a user with n listed items (n >= 1) and any integer p, the
\* page_<p> callback renders the items [5p, 5p+5) of the newest-first list
\* out of ceil(n/5) pages; every p < 0 or p >= ceil(n/5) is rendered as page
\* 0; a Previous button is there only when the rendered page is > 0 and a
\* Next button only when a page follows.
C23_PageRendering ==
    [][update'.kind = "callback_query" /\ StartsWith(update'.text, <<"p", "a", "g", "e", "_">>) =>
         LET uid == get_by_telegram_id(users, update'.from_id)
             ids == get_by_owner_id(items, uid, ListLimit)
             p == ParseInt(Replace(update'.text, <<"p", "a", "g", "e", "_">>)).val
         IN  ids # <<>> =>
                 RendersPage(result'.reply, items, ids,
                             RenderedPage(p, PagesOf(Len(ids))))]_vars

\* the third page of twelve items is shown: two items, a Previous button
\* and no Next button
C23_Witness ==
    /\ update.text = <<"p", "a", "g", "e", "_", "2">>
    /\ result.reply.text = "your_items"
    /\ result.reply.args = <<<<"1", "2">>, <<"3">>, <<"3">>>>
    /\ Len(ItemButtonRows(result.reply)) = 2
    /\ NavButtons(result.reply) = {<<"p", "a", "g", "e", "_", "1">>}

\* the list of codes cached in the conversation state of the user, <<>>
\* when the state holds none
CachedList(st, user_id) ==
    IF StateOf(st, user_id).state = "viewing_items"
    THEN StateOf(st, user_id).data.items ELSE <<>>

\* C25: a page_<n> callback renders the item list cached in the sender's
\* conversation state; when that state holds no cached list (absent or
\* empty), the reply is the empty-state message, not a page of items.
C25_PageFromCachedList ==
    [][/\ update'.kind = "callback_query"
       /\ StartsWith(update'.text, <<"p", "a", "g", "e", "_">>)
       /\ CachedList(user_states, update'.from_id) = <<>>
       => /\ result'.reply.text = "no_items_yet"
          /\ ItemButtonRows(result'.reply) = <<>>]_vars

(***************************************************************************)
(* Specification SpecLimits: one TelegramService instance, its users       *)
(* waiting for the content to save, and the saves of contents whose        *)
(* lengths lie at the limits.                                              *)
(***************************************************************************)
ContentLengths ==
    {1, NoteMax - 1, NoteMax, NoteMax + 1, ContentMax - 1, ContentMax, ContentMax + 1}

\* a content of n characters: a note, or a url by its www. prefix
ContentOf(n, url) ==
    [i \in 1..n |-> IF url /\ i <= 4 THEN <<"w", "w", "w", ".">>[i] ELSE "a"]

LimitContents == {ContentOf(n, url) : n \in ContentLengths \ {1}, url \in BOOLEAN}
                 \cup {ContentOf(1, FALSE)}

\* the save_item tap, the content as the free text that follows it, and
\* /save with the shortest content
LimitUpdates(update_id) ==
    {Update(update_id, "message", tg, <<"/", "s", "a", "v", "e", " ">> \o ContentOf(1, FALSE)) : tg \in TgIds}
    \cup {Update(update_id, "message", tg, c) : tg \in TgIds, c \in LimitContents}
    \cup {Update(update_id, "callback_query", tg, <<"s", "a", "v", "e", "_", "i", "t", "e", "m">>) : tg \in TgIds}

InitLimits ==
    /\ users = <<[telegram_user_id |-> 1], [telegram_user_id |-> 2]>>
    /\ items = <<>>
    /\ user_writes = {}
    /\ processed_updates = {}
    /\ user_states = EmptyDict
    /\ update = NoUpdate
    /\ fault = "none"
    /\ result = NoResult
    /\ http = [phase |-> "idle", response |-> 0, sent |-> "none"]
    /\ calls = <<>>

\* Telegram delivers its next update and process_webhook_update handles it,
\* every store call answering
DeliverLimit ==
    /\ update.kind = "none"
    /\ Cardinality(processed_updates) < MaxUpdateId
    /\ \E u \in LimitUpdates(Cardinality(processed_updates) + 1) :
          \E d \in ShortCodes :
              LET out == process_webhook_update(Engine, u, "none", d)
              IN  ~out.hang /\ Apply(u, [fault |-> "none", out |-> out])
    /\ UNCHANGED <<http, calls>>

NextLimits == DeliverLimit \/ Return

SpecLimits == InitLimits /\ [][NextLimits]_vars

\* this step hands the content of its update to the content validator of
\* save: a /save command, or a free text while waiting for the content
ValidatesContent ==
    /\ update'.kind = "message"
    /\ \/ StartsWith(update'.text, <<"/", "s", "a", "v", "e", " ">>)
       \/ /\ ~StartsWith(update'.text, <<"/">>)
          /\ StateOf(user_states, update'.from_id).state = "waiting_for_content"

\* the validator has rejected the content of the update of this step
Rejected == result'.reply.text = "validation_failed"

\* C24: the content validator that save applies rejects a note of 301
\* characters and accepts a note of exactly 300, and rejects a content of
\* 10 001 characters whatever its kind; a rejected content creates no item.
C24_ContentLimits ==
    [][ValidatesContent =>
         LET c == SavedContent(update')
             kind == _detect_content_kind(c)
         IN  /\ kind = "note" /\ Len(c) = NoteMax + 1 => Rejected
             /\ kind = "note" /\ Len(c) = NoteMax => ~Rejected
             /\ Len(c) = ContentMax + 1 => Rejected
             /\ Rejected => items' = items]_vars

(***************************************************************************)
(* Specification SpecGenerate: one call of _generate_unique_short_code,    *)
(* step by step, on an items table that no other call writes.  calls[1]    *)
(* is the coroutine: pc is its position in the loop, code the value of     *)
(* short_code.  SpecGenerateFair adds the fairness of random.choices:      *)
(* every code is drawn again and again.                                    *)
(***************************************************************************)
\* the codes random.choices draws
DrawnCodes == ShortCodes \cup {<<"c">>}

\* the items tables a call can find: rows of distinct codes, each deleted
\* or not
GenerateTables ==
    LET orders == {s \in UNION {[1..n -> DrawnCodes] : n \in 0..Cardinality(DrawnCodes)} :
                      \A i, j \in DOMAIN s : i # j => s[i] # s[j]}
    IN  UNION {{[i \in DOMAIN s |->
                   [owner_user_id |-> 1, short_code |-> s[i], kind |-> "note",
                    content |-> <<"a">>, deleted |-> del[i]]] :
                del \in [DOMAIN s -> BOOLEAN]} : s \in orders}

InitGenerate ==
    /\ users = <<[telegram_user_id |-> 1]>>
    /\ items \in GenerateTables
    /\ user_writes = {}
    /\ processed_updates = {}
    /\ user_states = EmptyDict
    /\ update = NoUpdate
    /\ fault = "none"
    /\ result = NoResult
    /\ http = [phase |-> "idle", response |-> 0, sent |-> "none"]
    /\ calls = <<Call(NoUpdate, "draw", <<>>, NoResult)>>

\* short_code = ''.join(random.choices(...)), then the await of the
\* availability query
Draw(d) ==
    /\ calls[1].pc = "draw"
    /\ calls' = <<Call(NoUpdate, "check", d, NoResult)>>
    /\ UNCHANGED <<users, items, user_writes, processed_updates, user_states,
                   update, fault, result, http>>

DrawCode == \E d \in DrawnCodes : Draw(d)

\* CheckAvailable returning whatever was drawn
CheckAvailable_AcceptsAnyDraw ==
    /\ calls[1].pc = "check"
    /\ calls' = <<Call(NoUpdate, "returned", calls[1].code, NoResult)>>
    /\ UNCHANGED <<users, items, user_writes, processed_updates, user_states,
                   update, fault, result, http>>

\* if await is_short_code_available(short_code): return short_code;
\* otherwise the loop goes round
CheckAvailable ==
    /\ calls[1].pc = "check"
    /\ calls' = <<Call(NoUpdate,
                       IF is_short_code_available(items, calls[1].code)
                       THEN "returned" ELSE "draw",
                       calls[1].code, NoResult)>>
    /\ UNCHANGED <<users, items, user_writes, processed_updates, user_states,
                   update, fault, result, http>>

NextGenerate == DrawCode \/ CheckAvailable

SpecGenerate == InitGenerate /\ [][NextGenerate]_vars

SpecGenerateFair ==
    /\ SpecGenerate
    /\ WF_vars(CheckAvailable)
    /\ \A d \in DrawnCodes : SF_vars(Draw(d))

\* C28: the generator returns only a code the availability check accepted
\* and draws again after every draw the check refused; when every code is
\* drawn again and again it returns in the end if some code is available,
\* and it never returns if none is.
C28_GenerateReturnsAvailable ==
    /\ [](calls[1].pc = "returned"
            => is_short_code_available(items, calls[1].code))
    /\ [][calls[1].pc = "check" /\ ~is_short_code_available(items, calls[1].code)
            => calls'[1].pc = "draw"]_vars
    /\ ((\E d \in DrawnCodes : is_short_code_available(items, d))
          ~> calls[1].pc = "returned")
    /\ []((\A d \in DrawnCodes : ~is_short_code_available(items, d))
            => calls[1].pc # "returned")

\* the generator has returned the code of a deleted row while the other
\* codes are taken
C28_Witness ==
    /\ calls[1].pc = "returned"
    /\ \E i \in 1..Len(items) :
          items[i].short_code = calls[1].code /\ items[i].deleted
    /\ \A d \in DrawnCodes \ {calls[1].code} : ~is_short_code_available(items, d)

(***************************************************************************)
(* Specification SpecRouter: one TelegramService instance and the button   *)
(* presses it handles in sequence, with payloads of every family of        *)
(* handle_callback_query and payloads that miss a family by little.        *)
(***************************************************************************)
RouterPayloads ==
    CallbackPayloads
    \cup {<<>>, <<"m", "a", "i", "n", "_", "m", "e", "n", "u", " ">>, <<"M", "A", "I", "N", "_", "M", "E", "N", "U">>, <<"p", "a", "g", "e">>, <<"p", "a", "g", "e", "_">>,
          <<"v", "i", "e", "w", "_", "i", "t", "e", "m">>, <<"c", "o", "p", "y", "_", "c", "o", "d", "e">>, <<"c", "o", "n", "f", "i", "r", "m", "_", "d", "e", "l", "e", "t", "e">>, <<"x", "p", "a", "g", "e", "_", "1">>,
          <<"c", "a", "n", "c", "e", "l">>}

\* Telegram delivers the next button press and process_webhook_update
\* handles it, from entry to return
TapButton ==
    /\ update.kind = "none"
    /\ Cardinality(processed_updates) < MaxUpdateId
    /\ \E tg \in TgIds, p \in RouterPayloads :
          LET u == Update(Cardinality(processed_updates) + 1, "callback_query", tg, p)
          IN  \E o \in Returned(Engine, u) : Apply(u, o)
    /\ UNCHANGED <<http, calls>>

NextRouter == TapButton \/ Return

SpecRouter == Init /\ [][NextRouter]_vars

\* the payload takes one of the branches of handle_callback_query before
\* the last else
RecognizedPayload(p) ==
    \/ p \in {<<"m", "a", "i", "n", "_", "m", "e", "n", "u">>, <<"s", "a", "v", "e", "_", "i", "t", "e", "m">>, <<"l", "i", "s", "t", "_", "i", "t", "e", "m", "s">>, <<"g", "e", "t", "_", "i", "t", "e", "m">>,
              <<"d", "e", "l", "e", "t", "e", "_", "i", "t", "e", "m">>, <<"s", "t", "a", "t", "s">>, <<"h", "e", "l", "p">>, <<"c", "a", "n", "c", "e", "l", "_", "a", "c", "t", "i", "o", "n">>}
    \/ \E prefix \in {<<"v", "i", "e", "w", "_", "i", "t", "e", "m", "_">>, <<"d", "e", "l", "e", "t", "e", "_", "i", "t", "e", "m", "_">>, <<"c", "o", "n", "f", "i", "r", "m", "_", "d", "e", "l", "e", "t", "e", "_">>,
                      <<"c", "o", "p", "y", "_", "c", "o", "d", "e", "_">>, <<"p", "a", "g", "e", "_">>} : StartsWith(p, prefix)

\* this step is handle_callback_query answering a button press, the user
\* of the sender at hand
Routed ==
    /\ update'.kind = "callback_query"
    /\ fault' \notin {"touch", "user"}

\* C29: for every payload handle_callback_query returns a text (and a
\* keyboard or none) and does not raise; a payload of no family gets the
\* unknown-action reply with the main menu, and the conversation states,
\* the items and the users stay as the router found them.
C29_RouterNeverRaises ==
    [][Routed =>
         /\ result'.status = "processed"
         /\ result'.reply.text # ""
         /\ ~RecognizedPayload(update'.text) =>
              /\ result'.reply = MenuReply("unknown_action", <<>>)
              /\ user_states' = user_states
              /\ items' = items
              /\ users' = create_or_update_user(users, update'.from_id).users]_vars

\* a payload that misses a family by its last character was answered
\* while the sender was asked for content
C29_Witness ==
    /\ update.kind = "callback_query"
    /\ update.text = <<"v", "i", "e", "w", "_", "i", "t", "e", "m">>
    /\ result.reply.text = "unknown_action"
    /\ StateOf(user_states, update.from_id).state = "waiting_for_content"

(***************************************************************************)
(* Specification SpecClassify: _detect_content_kind applied to one         *)
(* content.  update.text is the content, result.type the kind returned.    *)
(***************************************************************************)
\* contents put together from a start, a label, an ending and blanks
\* around them
ClassifyTexts ==
    {lead \o start \o label \o ending \o trail :
        lead \in {<<>>, <<" ">>},
        start \in {<<>>, <<"h", "t", "t", "p", ":", "/", "/">>, <<"h", "t", "t", "p", "s", ":", "/", "/">>, <<"w", "w", "w", ".">>, <<"H", "T", "T", "P", ":", "/", "/">>,
                   <<"f", "t", "p", ":", "/", "/">>, <<"h", "t", "t", "p", ":", "/">>},
        label \in {<<>>, <<"e", "x", "a", "m", "p", "l", "e">>, <<"e", "x", "-", "1">>, <<"a", ".", "b">>, <<"h", "e", "l", "l", "o", " ", "w", "o", "r", "l", "d">>,
                   <<"e", "x", "_", "a">>},
        ending \in {<<>>, <<".", "c", "o", "m">>, <<".", "c", "o", "m", "m">>, <<".", "i", "o">>, <<".", "d", "e", "v">>, <<".", "C", "O", "M">>,
                    <<".", "c", "o", "m", "/", "x">>, <<".", "x", "y", "z">>},
        trail \in {<<>>, <<" ">>}}

InitClassify ==
    /\ users = <<>>
    /\ items = <<>>
    /\ user_writes = {}
    /\ processed_updates = {}
    /\ user_states = EmptyDict
    /\ \E t \in ClassifyTexts : update = Update(0, "message", 1, t)
    /\ fault = "none"
    /\ result = NoResult
    /\ http = [phase |-> "idle", response |-> 0, sent |-> "none"]
    /\ calls = <<>>

Classify ==
    /\ result = NoResult
    /\ result' = Result("processed", "", _detect_content_kind(update.text),
                        NoReply, 0, 0)
    /\ UNCHANGED <<users, items, user_writes, processed_updates, user_states,
                   update, fault, http, calls>>

NextClassify == Classify

SpecClassify == InitClassify /\ [][NextClassify]_vars

\* the text is one label of letters, digits and hyphens, a dot and a known
\* top-level suffix, and nothing else
BareDomain(t) ==
    \E suffix \in TopLevelSuffixes :
        LET n == Len(t) - Len(suffix) - 1
        IN  /\ n >= 1
            /\ SubSeq(t, n + 2, Len(t)) = suffix
            /\ t[n + 1] = "."
            /\ \A i \in 1..n : t[i] \in LabelChars

\* C30: the kind of a content is url exactly when the trimmed content
\* starts with http:// or https://, starts with www., or is a bare domain,
\* and note otherwise; https://example.com and example.com are urls,
\* hello world and example.comm are notes.
C30_ClassifierBoundary ==
    /\ result.status = "processed" =>
         LET t == Strip(update.text)
         IN  /\ result.type \in {"url", "note"}
             /\ result.type = "url" <=>
                  \/ StartsWith(t, <<"h", "t", "t", "p", ":", "/", "/">>)
                  \/ StartsWith(t, <<"h", "t", "t", "p", "s", ":", "/", "/">>)
                  \/ StartsWith(t, <<"w", "w", "w", ".">>)
                  \/ BareDomain(t)
    /\ _detect_content_kind(<<"h", "t", "t", "p", "s", ":", "/", "/", "e", "x", "a", "m", "p", "l", "e", ".", "c", "o", "m">>) = "url"
    /\ _detect_content_kind(<<"h", "e", "l", "l", "o", " ", "w", "o", "r", "l", "d">>) = "note"
    /\ _detect_content_kind(<<"e", "x", "a", "m", "p", "l", "e", ".", "c", "o", "m">>) = "url"
    /\ _detect_content_kind(<<"e", "x", "a", "m", "p", "l", "e", ".", "c", "o", "m", "m">>) = "note"

\* a label with a suffix that only starts like a known one was classified
\* a note
C30_Witness ==
    /\ update.text = <<" ", "e", "x", "a", "m", "p", "l", "e", ".", "c", "o", "m", "m">>
    /\ result.status = "processed"
    /\ result.type = "note"

(***************************************************************************)
(* Specification SpecDialog: one TelegramService instance started on       *)
(* tables that hold two users and their items, and the commands, button    *)
(* presses and typed texts of the dialogs it handles in sequence.          *)
(***************************************************************************)
\* the user with Telegram id 1 owns item a, the user with Telegram id 2
\* owns item b or nothing; the row ids of the users are their Telegram ids
\* or the other way round
DialogSeeds ==
    LET row(owner, code) ==
            [owner_user_id |-> owner, short_code |-> code, kind |-> "note",
             content |-> <<"a">>, deleted |-> FALSE]
        us == <<[telegram_user_id |-> 1], [telegram_user_id |-> 2]>>
        su == <<[telegram_user_id |-> 2], [telegram_user_id |-> 1]>>
    IN  {[users |-> us, items |-> <<row(1, <<"a">>)>>],
         [users |-> us, items |-> <<row(2, <<"b">>), row(1, <<"a">>)>>],
         [users |-> su, items |-> <<row(2, <<"a">>)>>]}

DialogUpdates(update_id) ==
    {Update(update_id, "message", tg, t) :
        tg \in TgIds,
        t \in {<<"/", "s", "t", "a", "r", "t">>, <<"/", "c", "a", "n", "c", "e", "l">>, <<"/", "h", "e", "l", "p">>, <<"/", "s", "t", "a", "t", "s">>, <<"/", "s", "a", "v", "e", " ", "a">>,
               <<"/", "g", "e", "t", " ", "a">>, <<"/", "x">>, <<"/", "l", "i", "s", "t">>, <<"/", "d", "e", "l", " ", "a">>, <<"a">>, <<" ", "a", " ">>,
               <<"b">>, <<"z", "z">>}}
    \cup {Update(update_id, "callback_query", tg, t) :
             tg \in TgIds,
             t \in {<<"m", "a", "i", "n", "_", "m", "e", "n", "u">>, <<"c", "a", "n", "c", "e", "l", "_", "a", "c", "t", "i", "o", "n">>, <<"s", "a", "v", "e", "_", "i", "t", "e", "m">>,
                    <<"g", "e", "t", "_", "i", "t", "e", "m">>, <<"d", "e", "l", "e", "t", "e", "_", "i", "t", "e", "m">>, <<"h", "e", "l", "p">>, <<"s", "t", "a", "t", "s">>,
                    <<"c", "o", "p", "y", "_", "c", "o", "d", "e", "_", "a">>, <<"c", "o", "n", "f", "i", "r", "m", "_", "d", "e", "l", "e", "t", "e", "_", "a">>}}

InitDialog ==
    /\ \E seed \in DialogSeeds : users = seed.users /\ items = seed.items
    /\ user_writes = {}
    /\ processed_updates = {}
    /\ user_states = EmptyDict
    /\ update = NoUpdate
    /\ fault = "none"
    /\ result = NoResult
    /\ http = [phase |-> "idle", response |-> 0, sent |-> "none"]
    /\ calls = <<>>

\* Telegram delivers its next update and process_webhook_update handles
\* it, from entry to return
DeliverDialog ==
    /\ update.kind = "none"
    /\ Cardinality(processed_updates) < MaxUpdateId
    /\ \E u \in DialogUpdates(Cardinality(processed_updates) + 1) :
          \E o \in Returned(Engine, u) : Apply(u, o)
    /\ UNCHANGED <<http, calls>>

NextDialog == DeliverDialog \/ Return

SpecDialog == InitDialog /\ [][NextDialog]_vars

\* this step handles a typed text of a sender who was asked for the code
\* of the item to delete
TextWhileWaitingForDeleteCode ==
    /\ FirstCall
    /\ update'.kind = "message"
    /\ ~StartsWith(update'.text, <<"/">>)
    /\ StateOf(user_states, update'.from_id).state = "waiting_for_delete_code"

\* the rows of the items, not deleted, that carry the code and belong to
\* the user with the Telegram id
OwnLive(us, its, tg, code) ==
    {i \in 1..Len(its) : /\ its[i].short_code = code
                         /\ ~its[i].deleted
                         /\ its[i].owner_user_id = get_by_telegram_id(us, tg)}

\* C31: a typed text of a user who was asked for a code to delete, whose
\* trimmed text is the code of an item of theirs that is not deleted, sets
\* the user's state to confirming_delete with that code and deletes
\* nothing; with a code of no item or of somebody else's item nothing is
\* deleted and the state does not become confirming_delete.
C31_DeleteCodeAsksToConfirm ==
    [][TextWhileWaitingForDeleteCode =>
         LET tg == update'.from_id
             code == Strip(update'.text)
         IN  /\ \A i \in 1..Len(items) : items'[i].deleted = items[i].deleted
             /\ IF OwnLive(users, items, tg, code) # {}
                THEN /\ StateOf(user_states', tg).state = "confirming_delete"
                     /\ StateOf(user_states', tg).data = [item_code |-> code]
                ELSE StateOf(user_states', tg).state # "confirming_delete"]_vars

\* the sender typed their code with blanks around it and was asked to
\* confirm
C31_Witness ==
    /\ update.text = <<" ", "a", " ">>
    /\ result.reply.text = "delete_confirmation"
    /\ StateOf(user_states, update.from_id) =
         [state |-> "confirming_delete", data |-> [item_code |-> <<"a">>]]
    /\ \A i \in 1..Len(items) : ~items[i].deleted

\* this step handles /start, /cancel, or a press of main_menu or
\* cancel_action
LeavesDialog ==
    /\ FirstCall
    /\ \/ /\ update'.kind = "message"
          /\ Split(update'.text) # <<>>
          /\ Lower(Split(update'.text)[1]) \in {<<"/", "s", "t", "a", "r", "t">>, <<"/", "c", "a", "n", "c", "e", "l">>}
       \/ /\ update'.kind = "callback_query"
          /\ update'.text \in {<<"m", "a", "i", "n", "_", "m", "e", "n", "u">>, <<"c", "a", "n", "c", "e", "l", "_", "a", "c", "t", "i", "o", "n">>}

C33_WritesOnlySendersState ==
    [][update'.kind # "none" =>
         \A k \in (DOMAIN user_states \cup DOMAIN user_states') \ {update'.from_id} :
             /\ k \in DOMAIN user_states
             /\ k \in DOMAIN user_states'
             /\ user_states'[k] = user_states[k]]_vars

\* C34: a confirm_delete_<code> press soft-deletes an item only if the
\* state of its owner is confirming_delete with that code when the press
\* is handled.
C34_DeleteNeedsPendingConfirmation ==
    [][\A i \in 1..Len(items) :
          SoftDeleted(i) /\ StartsWith(update'.text, <<"c", "o", "n", "f", "i", "r", "m", "_", "d", "e", "l", "e", "t", "e", "_">>) =>
             StateOf(user_states, OwnerTg(users, items, i)) =
                [state |-> "confirming_delete",
                 data |-> [item_code |-> items[i].short_code]]]_vars

\* the update is /help, /stats, /save, /get or a command of no handler,
\* or a press of help, stats or copy_code_<code>
OutsideDialog(u) ==
    \/ /\ u.kind = "message"
       /\ StartsWith(u.text, <<"/">>)
       /\ Lower(Split(u.text)[1]) \notin
             {<<"/", "s", "t", "a", "r", "t">>, <<"/", "m", "e", "n", "u">>, <<"/", "c", "a", "n", "c", "e", "l">>, <<"/", "l", "i", "s", "t">>, <<"/", "d", "e", "l">>}
    \/ /\ u.kind = "callback_query"
       /\ \/ u.text \in {<<"h", "e", "l", "p">>, <<"s", "t", "a", "t", "s">>}
          \/ StartsWith(u.text, <<"c", "o", "p", "y", "_", "c", "o", "d", "e", "_">>)

\* C38: /help, /stats, /save, /get, an unknown command and the help, stats
\* and copy_code_<code> buttons leave the state of the sender as it was; a
\* state that waits for a text is still there for the next text.
C38_StateSurvivesOtherCommands ==
    [][update'.kind # "none" /\ OutsideDialog(update') =>
         StateOf(user_states', update'.from_id)
            = StateOf(user_states, update'.from_id)]_vars

\* /help was handled while the sender was asked for a code to delete, and
\* the sender is still asked
C38_Witness ==
    /\ update.text = <<"/", "h", "e", "l", "p">>
    /\ result.reply.text = "help"
    /\ StateOf(user_states, update.from_id).state = "waiting_for_delete_code"

=============================================================================
